---- MODULE Spec2Model ----
(***************************************************************************)
(* Model of the skill installation / synchronisation engine:               *)
(*   - sanitizeName, isPathSafe and the path computations of the installer *)
(*   - a filesystem with directories, files and symbolic links             *)
(*   - the four installers, listInstalledSkills and the batch install loop *)
(* Names and path segments are sequences of one-character strings, a path  *)
(* is the sequence of its segments from the filesystem root.               *)
(***************************************************************************)
EXTENDS Naturals, Integers, Sequences, FiniteSets, TLC

VARIABLES
    fs,        \* the filesystem: physical path -> node
    site,      \* the (agent, scope) pair the install calls of this run address
    calls,     \* number of install calls made so far
    last,      \* record of the most recent install call (arguments, result, observations)
    prev,      \* record of the install call before it
    listed,    \* result of the most recent listInstalledSkills call
    pc,        \* position of runAdd: "check", "loop", "copying", "done", "reported",
               \* "aborted"
    plan,      \* what the batch installs: targets, scope, mode, skill, environment
    pair,      \* index of the (skill, target) pair the install loop is at
    tasks,     \* the child copies started by copyDirectory, settled or not
    results,   \* the results array of runAdd
    lock,      \* the skill lock file: the skills it has an entry for
    applied    \* the most recent application of a pure function: argument and value

vars == <<fs, site, calls, last, prev, listed, pc, plan, pair, tasks, results, lock, applied>>
callVars == <<site, calls, last, prev, listed, applied>>
batchVars == <<pc, plan, pair, tasks, results, lock>>

-----------------------------------------------------------------------------
(* Strings *)

AGENTS_DIR == <<".", "a", "g", "e", "n", "t", "s">>
SKILLS_SUBDIR == <<"s", "k", "i", "l", "l", "s">>
SKILL_MD == <<"S", "K", "I", "L", "L", ".", "m", "d">>
UNNAMED_SKILL == <<"u", "n", "n", "a", "m", "e", "d", "-", "s", "k", "i", "l", "l">>

UpperChars == <<"A", "B", "C", "D", "E", "F", "G", "H", "I", "J", "K", "L", "M",
                "N", "O", "P", "Q", "R", "S", "T", "U", "V", "W", "X", "Y", "Z">>
LowerChars == <<"a", "b", "c", "d", "e", "f", "g", "h", "i", "j", "k", "l", "m",
                "n", "o", "p", "q", "r", "s", "t", "u", "v", "w", "x", "y", "z">>
DigitChars == <<"0", "1", "2", "3", "4", "5", "6", "7", "8", "9">>

Range(s) == {s[i] : i \in DOMAIN s}

Min(a, b) == IF a < b THEN a ELSE b

\* String.prototype.toLowerCase on one character (ASCII letters; others unchanged)
toLowerChar(c) ==
    IF c \in Range(UpperChars)
    THEN LowerChars[CHOOSE i \in DOMAIN UpperChars : UpperChars[i] = c]
    ELSE c

toLowerCase(s) == [i \in DOMAIN s |-> toLowerChar(s[i])]

\* a variant of the character class that would let the path separator through
IsNameCharOrSeparator(c) ==
    c \in Range(LowerChars) \cup Range(DigitChars) \cup {".", "_", "/"}

\* the character class [a-z0-9._]
IsNameChar(c) == c \in Range(LowerChars) \cup Range(DigitChars) \cup {".", "_"}

\* .replace(/[^a-z0-9._]+/g, '-'): every maximal run of other characters becomes
\* one '-'.  The positions kept are the allowed characters and the first
\* character of each run.
ReplaceRuns(s) ==
    LET kept == SelectSeq([i \in 1..Len(s) |-> i],
                          LAMBDA i : IsNameChar(s[i]) \/ i = 1 \/ IsNameChar(s[i - 1]))
    IN [j \in 1..Len(kept) |-> IF IsNameChar(s[kept[j]]) THEN s[kept[j]] ELSE "-"]

IsDotOrHyphen(c) == c \in {".", "-"}

\* .replace(/^[.\-]+|[.\-]+$/g, ''): strip the leading and the trailing run of '.' and '-'
RECURSIVE StripLeading(_)
StripLeading(s) ==
    IF s # <<>> /\ IsDotOrHyphen(Head(s)) THEN StripLeading(Tail(s)) ELSE s

RECURSIVE StripTrailing(_)
StripTrailing(s) ==
    IF s # <<>> /\ IsDotOrHyphen(s[Len(s)])
    THEN StripTrailing(SubSeq(s, 1, Len(s) - 1))
    ELSE s

MaxNameLen == 255

\* a variant that would not cut the name at the length limit
sanitizeNameUncut(name) ==
    LET sanitized == StripTrailing(StripLeading(ReplaceRuns(toLowerCase(name))))
    IN IF sanitized = <<>> THEN UNNAMED_SKILL ELSE sanitized

\* a variant that would leave the dots and hyphens at the ends
sanitizeNameUnstripped(name) ==
    LET sanitized == ReplaceRuns(toLowerCase(name))
        cut == SubSeq(sanitized, 1, Min(Len(sanitized), MaxNameLen))
    IN IF cut = <<>> THEN UNNAMED_SKILL ELSE cut

sanitizeName(name) ==
    LET sanitized == StripTrailing(StripLeading(ReplaceRuns(toLowerCase(name))))
        cut == SubSeq(sanitized, 1, Min(Len(sanitized), MaxNameLen))
    IN IF cut = <<>> THEN UNNAMED_SKILL ELSE cut

-----------------------------------------------------------------------------
(* Paths *)

Front(p) == SubSeq(p, 1, Len(p) - 1)
Last(p) == p[Len(p)]

IsPrefix(a, b) == Len(a) <= Len(b) /\ SubSeq(b, 1, Len(a)) = a

\* path.join / path.resolve on absolute paths: appends and normalises "." and ".."
RECURSIVE Normalize(_, _)
Normalize(acc, rest) ==
    IF rest = <<>> THEN acc
    ELSE IF Head(rest) = <<".">> \/ Head(rest) = <<>> THEN Normalize(acc, Tail(rest))
    ELSE IF Head(rest) = <<".", ".">>
         THEN Normalize(IF acc = <<>> THEN acc ELSE Front(acc), Tail(rest))
    ELSE Normalize(Append(acc, Head(rest)), Tail(rest))

join(base, rel) == Normalize(base, rel)

\* the segments path.join reads in a string argument: what lies between its '/'
SplitPath(s) ==
    LET seps == SelectSeq([i \in 1..Len(s) |-> i], LAMBDA i : s[i] = "/")
        marks == <<0>> \o seps \o <<Len(s) + 1>>
    IN [k \in 1..(Len(marks) - 1) |-> SubSeq(s, marks[k] + 1, marks[k + 1] - 1)]

\* the characters of an absolute normalised path as path.resolve prints it
RECURSIVE PathChars(_)
PathChars(p) ==
    IF p = <<>> THEN <<>> ELSE <<"/">> \o Head(p) \o PathChars(Tail(p))

\* normalize(resolve(p)): "." and ".." are worked off, the root prints as "/"
resolve(p) ==
    IF Normalize(<<>>, p) = <<>> THEN <<"/">> ELSE PathChars(Normalize(<<>>, p))

sep == <<"/">>

\* a variant that would let every path pass
isPathUnchecked(basePath, targetPath) == TRUE

isPathSafe(basePath, targetPath) ==
    LET normalizedBase == resolve(basePath)
        normalizedTarget == resolve(targetPath)
    IN IsPrefix(normalizedBase \o sep, normalizedTarget)
       \/ normalizedTarget = normalizedBase

-----------------------------------------------------------------------------
(* The filesystem.  fs maps each existing physical path (one that crosses no   *)
(* link) to its node; the root <<>> always exists and is a directory.  A link  *)
(* stores a relative target: `up` parent steps from the directory holding the  *)
(* link, then the segments `down`.                                             *)

NoContent == [name |-> <<>>, desc |-> FALSE, internal |-> FALSE, v |-> 0]
NoTarget == [up |-> 0, down |-> <<>>]
DirNode == [k |-> "dir", c |-> NoContent, t |-> NoTarget]
FileNode(c) == [k |-> "file", c |-> c, t |-> NoTarget]
LinkNode(t) == [k |-> "link", c |-> NoContent, t |-> t]

\* the number of links one path resolution follows before the kernel gives up (ELOOP)
MaxHops == 4

Up(p, n) == SubSeq(p, 1, IF Len(p) > n THEN Len(p) - n ELSE 0)

KindAt(f, real) == IF real = <<>> THEN "dir" ELSE f[real].k

\* path resolution following every link: from the physical directory cur, walk rest
RECURSIVE Walk(_, _, _, _)
Walk(f, cur, rest, hops) ==
    IF rest = <<>> THEN [err |-> "OK", real |-> cur, more |-> <<>>]
    ELSE LET p == Append(cur, Head(rest)) IN
         IF p \notin DOMAIN f THEN [err |-> "ENOENT", real |-> p, more |-> Tail(rest)]
         ELSE IF f[p].k = "dir" THEN Walk(f, p, Tail(rest), hops)
         ELSE IF f[p].k = "file"
              THEN IF Tail(rest) = <<>>
                   THEN [err |-> "OK", real |-> p, more |-> <<>>]
                   ELSE [err |-> "ENOTDIR", real |-> p, more |-> Tail(rest)]
         ELSE IF hops = 0 THEN [err |-> "ELOOP", real |-> p, more |-> Tail(rest)]
         ELSE Walk(f, Up(cur, f[p].t.up), f[p].t.down \o Tail(rest), hops - 1)

\* `await e`: the value of e, computed once, is handed to what follows it
Await(e, K(_)) == CHOOSE r \in {K(v) : v \in {e}} : TRUE

\* fs.stat / fs.access: follows the final link too
stat(f, p) == Walk(f, <<>>, p, MaxHops)

access(f, p) == stat(f, p).err = "OK"

IsDirAt(f, p) == \E r \in {stat(f, p)} : r.err = "OK" /\ KindAt(f, r.real) = "dir"

IsFileAt(f, p) == \E r \in {stat(f, p)} : r.err = "OK" /\ KindAt(f, r.real) = "file"

\* fs.lstat: resolves the parent, does not follow the final component.
\* par tells whether the parent resolved to a directory.
lstat(f, p) ==
    IF p = <<>> THEN [err |-> "OK", real |-> <<>>, k |-> "dir", par |-> TRUE]
    ELSE Await(stat(f, Front(p)), LAMBDA pr :
         IF pr.err # "OK" THEN [err |-> pr.err, real |-> <<>>, k |-> "none", par |-> FALSE]
         ELSE IF KindAt(f, pr.real) # "dir"
              THEN [err |-> "ENOTDIR", real |-> <<>>, k |-> "none", par |-> FALSE]
         ELSE LET q == Append(pr.real, Last(p)) IN
              IF q \in DOMAIN f
              THEN [err |-> "OK", real |-> q, k |-> f[q].k, par |-> TRUE]
              ELSE [err |-> "ENOENT", real |-> q, k |-> "none", par |-> TRUE])

Ok(f) == [err |-> "OK", fs |-> f]
Err(e, f) == [err |-> e, fs |-> f]

RemoveTree(f, q) == [x \in {y \in DOMAIN f : ~IsPrefix(q, y)} |-> f[x]]

Put(f, q, node) == (q :> node) @@ f

\* fs.rm(path, {recursive, force}): a link is unlinked, never followed
rm(f, p, recursive, force) ==
    Await(lstat(f, p), LAMBDA st :
    IF st.err = "ENOENT" THEN (IF force THEN Ok(f) ELSE Err("ENOENT", f))
    ELSE IF st.err # "OK" THEN Err(st.err, f)
    ELSE IF st.real = <<>> THEN Err("EPERM", f)
    ELSE IF st.k = "dir" /\ ~recursive THEN Err("EISDIR", f)
    ELSE Ok(RemoveTree(f, st.real)))

\* fs.mkdir(path, {recursive: true}): creates what is missing, follows links to
\* existing directories, fails on a file or on a link that leads to no directory
RECURSIVE MkdirWalk(_, _, _)
MkdirWalk(f, cur, rest) ==
    IF rest = <<>> THEN Ok(f)
    ELSE LET p == Append(cur, Head(rest)) IN
         IF p \notin DOMAIN f THEN MkdirWalk(Put(f, p, DirNode), p, Tail(rest))
         ELSE IF f[p].k = "dir" THEN MkdirWalk(f, p, Tail(rest))
         ELSE IF f[p].k = "file" THEN Err("EEXIST", f)
         ELSE Await(Walk(f, cur, <<Head(rest)>>, MaxHops), LAMBDA r :
              IF r.err = "OK" /\ KindAt(f, r.real) = "dir"
              THEN MkdirWalk(f, r.real, Tail(rest))
              ELSE Err(IF r.err = "ELOOP" THEN "ELOOP" ELSE "EEXIST", f))

mkdir(f, p) == MkdirWalk(f, <<>>, p)

\* fs.symlink(target, path): permitted says whether the platform lets this
\* process create links at all
symlink(f, t, linkPath, permitted) ==
    Await(lstat(f, linkPath), LAMBDA st :
    IF ~permitted THEN Err("EPERM", f)
    ELSE IF st.err = "OK" THEN Err("EEXIST", f)
    ELSE IF st.err = "ENOENT" /\ st.par THEN Ok(Put(f, st.real, LinkNode(t)))
    ELSE Err(st.err, f))

\* fs.writeFile / the copy of one file: creates or overwrites, follows a link
writeFile(f, p, c) ==
    Await(lstat(f, p), LAMBDA st :
    IF st.err = "ENOENT" /\ st.par THEN Ok(Put(f, st.real, FileNode(c)))
    ELSE IF st.err # "OK" THEN Err(st.err, f)
    ELSE IF st.k = "file" THEN Ok(Put(f, st.real, FileNode(c)))
    ELSE IF st.k = "dir" THEN Err("EISDIR", f)
    ELSE Await(stat(f, p), LAMBDA r :
         IF r.err = "OK" /\ KindAt(f, r.real) = "file" THEN Ok(Put(f, r.real, FileNode(c)))
         ELSE IF r.err = "ENOENT" /\ r.more = <<>> THEN Ok(Put(f, r.real, FileNode(c)))
         ELSE Err(IF r.err = "OK" THEN "EISDIR" ELSE r.err, f)))

\* fs.readdir(path, {withFileTypes: true}): the physical children of the directory
Children(f, real) == {q \in DOMAIN f : Len(q) = Len(real) + 1 /\ Front(q) = real}

readdir(f, p) ==
    Await(stat(f, p), LAMBDA r :
    IF r.err = "OK" /\ KindAt(f, r.real) = "dir"
    THEN [err |-> "OK", entries |-> Children(f, r.real)]
    ELSE [err |-> IF r.err = "OK" THEN "ENOTDIR" ELSE r.err, entries |-> {}])

\* path.relative(from, to) on absolute normalised paths
RECURSIVE CommonLen(_, _)
CommonLen(a, b) ==
    IF a # <<>> /\ b # <<>> /\ Head(a) = Head(b) THEN 1 + CommonLen(Tail(a), Tail(b)) ELSE 0

relative(from, to) ==
    LET n == CommonLen(from, to) IN
    [up |-> Len(from) - n, down |-> SubSeq(to, n + 1, Len(to))]

dirname(p) == Front(p)

resolveSymlinkTarget(linkPath, linkTarget) ==
    Up(dirname(linkPath), linkTarget.up) \o linkTarget.down

-----------------------------------------------------------------------------
(* The agent registry and the installer's path computations *)

DOT_CONFIG == <<".", "c", "o", "n", "f", "i", "g">>
DOT_CLAUDE == <<".", "c", "l", "a", "u", "d", "e">>
DOT_AGENT == <<".", "a", "g", "e", "n", "t">>
AGENTS_SEG == <<"a", "g", "e", "n", "t", "s">>

\* process.cwd() and os.homedir()
cwd == << <<"p">> >>
homedir == << <<"h">> >>
configHome == Append(homedir, DOT_CONFIG)
claudeHome == Append(homedir, DOT_CLAUDE)

\* the value of a globalSkillsDir that is not defined
undefined == << <<"undefined">> >>

\* three entries of the registry: one whose project directory is the canonical
\* one, an ordinary one, and one without a global directory
agents ==
    ("amp" :> [skillsDir |-> <<AGENTS_DIR, SKILLS_SUBDIR>>,
               globalSkillsDir |-> configHome \o <<AGENTS_SEG, SKILLS_SUBDIR>>])
    @@ ("claude-code" :> [skillsDir |-> <<DOT_CLAUDE, SKILLS_SUBDIR>>,
                          globalSkillsDir |-> Append(claudeHome, SKILLS_SUBDIR)])
    @@ ("replit" :> [skillsDir |-> <<DOT_AGENT, SKILLS_SUBDIR>>,
                     globalSkillsDir |-> undefined])

AgentType == DOMAIN agents

getCanonicalSkillsDir(global) ==
    LET baseDir == IF global THEN homedir ELSE cwd
    IN join(baseDir, <<AGENTS_DIR, SKILLS_SUBDIR>>)

\* agentBase of the installers: undefined for a global install to an agent
\* without a global skills directory
AgentBase(agentType, global) ==
    IF global THEN agents[agentType].globalSkillsDir
    ELSE join(cwd, agents[agentType].skillsDir)

-----------------------------------------------------------------------------
(* Copying a skill directory.  A source tree maps entry names to entries:     *)
(* [k |-> "file", c, sub |-> <<>>] or [k |-> "dir", c, sub |-> tree], or a     *)
(* symbolic link [k |-> "link", to, c, sub] to a file (c) or a directory (sub). *)

README_MD == <<"R", "E", "A", "D", "M", "E", ".", "m", "d">>
METADATA_JSON == <<"m", "e", "t", "a", "d", "a", "t", "a", ".", "j", "s", "o", "n">>
DOT_GIT == <<".", "g", "i", "t">>

EXCLUDE_FILES == {README_MD, METADATA_JSON}
EXCLUDE_DIRS == {DOT_GIT}

isExcluded(name, isDirectory) ==
    \/ name \in EXCLUDE_FILES
    \/ (name # <<>> /\ Head(name) = "_")
    \/ (isDirectory /\ name \in EXCLUDE_DIRS)

\* fs.cp(src, dest, {dereference: true, recursive: true}) of one entry that
\* readdir did not report as a directory: a link is followed, and a directory
\* behind it is copied whole, every entry of it.  failing holds the names whose
\* write the disk refuses
RECURSIVE cp(_, _, _, _)
RECURSIVE CpEntries(_, _, _, _, _)
CpEntries(f, src, names, dest, failing) ==
    IF names = {} THEN Ok(f)
    ELSE Await(CHOOSE x \in names : TRUE, LAMBDA n :
         Await(cp(f, src[n], Append(dest, n), failing), LAMBDA one :
         IF one.err # "OK" THEN one
         ELSE CpEntries(one.fs, src, names \ {n}, dest, failing)))

cp(f, entry, destPath, failing) ==
    IF Last(destPath) \in failing THEN Err("EACCES", f)
    ELSE IF entry.k = "file" \/ (entry.k = "link" /\ entry.to = "file")
    THEN writeFile(f, destPath, entry.c)
    ELSE Await(mkdir(f, destPath), LAMBDA made :
         IF made.err # "OK" THEN made
         ELSE CpEntries(made.fs, entry.sub, DOMAIN entry.sub, destPath, failing))

\* copyDirectory: mkdir dest, then every non-excluded child, all started together
\* (Promise.all): a failing child does not stop its siblings, the call ends with
\* the first error.  The result is the filesystem once every child has settled.
RECURSIVE copyDirectory(_, _, _, _)
RECURSIVE CopyEntries(_, _, _, _, _)
CopyEntries(f, src, names, dest, failing) ==
    IF names = {} THEN Ok(f)
    ELSE Await(CHOOSE x \in names : TRUE, LAMBDA n :
         Await(IF src[n].k = "dir"
               THEN copyDirectory(f, src[n].sub, Append(dest, n), failing)
               ELSE cp(f, src[n], Append(dest, n), failing), LAMBDA one :
         Await(CopyEntries(one.fs, src, names \ {n}, dest, failing), LAMBDA rest :
         [err |-> IF one.err # "OK" THEN one.err ELSE rest.err, fs |-> rest.fs])))

copyDirectory(f, src, dest, failing) ==
    Await(mkdir(f, dest), LAMBDA made :
    IF made.err # "OK" THEN made
    ELSE CopyEntries(made.fs, src,
                     {n \in DOMAIN src : ~isExcluded(n, src[n].k = "dir")}, dest, failing))

-----------------------------------------------------------------------------
(* ensureDirectory and createSymlink *)

ensureDirectory(f, path) ==
    Await(lstat(f, path), LAMBDA st :
    Await(IF st.err = "OK"
          THEN (IF st.k = "link" THEN rm(f, path, TRUE, TRUE) ELSE Ok(f))
          ELSE IF st.err = "ENOENT" THEN Ok(f)
          ELSE IF st.err = "ELOOP" THEN rm(f, path, TRUE, TRUE)
          ELSE Err(st.err, f), LAMBDA cleared :
    IF cleared.err # "OK" THEN cleared ELSE mkdir(cleared.fs, path)))

\* createSymlink(target, linkPath): created tells the returned boolean, linked
\* whether fs.symlink was called and succeeded, before the filesystem at that call
createSymlink(f, target, linkPath, permitted) ==
    LET resolvedTarget == target
        resolvedLinkPath == linkPath
        linkDir == dirname(linkPath)
        relativePath == relative(linkDir, target)
    IN IF resolvedTarget = resolvedLinkPath
       THEN [created |-> TRUE, fs |-> f, linked |-> FALSE, before |-> f]
       ELSE
       Await(lstat(f, linkPath), LAMBDA st :
       IF st.err = "OK" /\ st.k = "link"
          /\ resolveSymlinkTarget(linkPath, f[st.real].t) = resolvedTarget
       THEN [created |-> TRUE, fs |-> f, linked |-> FALSE, before |-> f]
       ELSE
       \* the inner try: whatever it throws is swallowed
       Await(IF st.err = "OK"
             THEN (IF st.k = "link" THEN rm(f, linkPath, FALSE, FALSE)
                                    ELSE rm(f, linkPath, TRUE, FALSE))
             ELSE IF st.err = "ELOOP" THEN rm(f, linkPath, FALSE, TRUE)
             ELSE Ok(f), LAMBDA removal :
       Await(mkdir(removal.fs, linkDir), LAMBDA made :
       IF made.err # "OK"
       THEN [created |-> FALSE, fs |-> made.fs, linked |-> FALSE, before |-> f]
       ELSE
       Await(symlink(made.fs, relativePath, linkPath, permitted), LAMBDA link :
       [created |-> link.err = "OK", fs |-> link.fs,
        linked |-> link.err = "OK", before |-> made.fs]))))

-----------------------------------------------------------------------------
(* The installers.  Each returns the InstallResult it builds (outcome "returned") *)
(* or the fact that it threw (outcome "thrown"), the filesystem it leaves, and    *)
(* three observations: which consumer view it created (view), whether the        *)
(* canonical directory existed when it did (canonAtView), and what createSymlink  *)
(* returned, if it was called (symlinkCreated).                                   *)
(* options = [global, mode]; env = [link, failCanonical, failConsumer] says       *)
(* whether the platform permits links and which file writes the disk refuses.     *)

TRAVERSAL == "Invalid skill name: potential path traversal detected"

\* a variant of the result that would name the mode arrived at instead of the
\* mode asked for
ReturnedAchievedMode(success, path, canonicalPath, mode, symlinkFailed, error, f, view, canonAtView, symlinkCreated) ==
    [outcome |-> "returned", success |-> success, path |-> path,
     canonicalPath |-> canonicalPath, mode |-> IF symlinkFailed THEN "copy" ELSE mode,
     symlinkFailed |-> symlinkFailed, error |-> error, fs |-> f, view |-> view,
     canonAtView |-> canonAtView, symlinkCreated |-> symlinkCreated]

\* a variant of the result that would drop the error message
ReturnedWithoutError(success, path, canonicalPath, mode, symlinkFailed, error, f, view, canonAtView, symlinkCreated) ==
    [outcome |-> "returned", success |-> success, path |-> path,
     canonicalPath |-> canonicalPath, mode |-> mode, symlinkFailed |-> symlinkFailed,
     error |-> "", fs |-> f, view |-> view, canonAtView |-> canonAtView,
     symlinkCreated |-> symlinkCreated]

\* the InstallResult an installer returns, with the filesystem it leaves and
\* the observations
Returned(success, path, canonicalPath, mode, symlinkFailed, error, f, view, canonAtView, symlinkCreated) ==
    [outcome |-> "returned", success |-> success, path |-> path,
     canonicalPath |-> canonicalPath, mode |-> mode, symlinkFailed |-> symlinkFailed,
     error |-> error, fs |-> f, view |-> view, canonAtView |-> canonAtView,
     symlinkCreated |-> symlinkCreated]

\* a TypeError raised outside the installer's try block (path.join on undefined)
Thrown(f) ==
    [outcome |-> "thrown", success |-> FALSE, path |-> undefined,
     canonicalPath |-> undefined, mode |-> "none", symlinkFailed |-> FALSE,
     error |-> "ERR_INVALID_ARG_TYPE", fs |-> f, view |-> "none", canonAtView |-> FALSE,
     symlinkCreated |-> "none"]

\* one file write that the disk may refuse
WriteOrFail(f, path, content, failing) ==
    IF Last(path) \in failing THEN Err("EACCES", f) ELSE writeFile(f, path, content)

\* installSkillForAgent once the canonical copy is made: the link, or the
\* fallback copy when createSymlink returns false
linkOrFallback(f, tree, canonicalDir, agentDir, installMode, env) ==
    Await(createSymlink(f, canonicalDir, agentDir, env.link), LAMBDA sym :
    IF sym.created
    THEN Returned(TRUE, agentDir, canonicalDir, "symlink", FALSE, "", sym.fs,
                  IF sym.linked THEN "link" ELSE "none",
                  IsDirAt(sym.before, canonicalDir), "true")
    ELSE
    Await(rm(sym.fs, agentDir, TRUE, TRUE), LAMBDA cleaned :
    Await(mkdir(cleaned.fs, agentDir), LAMBDA fallbackMade :
    Await(IF fallbackMade.err = "OK"
          THEN copyDirectory(fallbackMade.fs, tree, agentDir, env.failConsumer)
          ELSE fallbackMade, LAMBDA fallback :
    IF fallback.err = "OK"
    THEN Returned(TRUE, agentDir, canonicalDir, "symlink", TRUE, "", fallback.fs,
                  "copy", IsDirAt(cleaned.fs, canonicalDir), "false")
    ELSE Returned(FALSE, agentDir, undefined, installMode, FALSE, fallback.err,
                  fallback.fs, IF fallbackMade.err = "OK" THEN "copy" ELSE "none",
                  IsDirAt(cleaned.fs, canonicalDir), "false")))))

installSkillForAgent(f, skill, agentType, options, env) ==
    LET isGlobal == options.global
        installMode == options.mode
        rawSkillName == IF skill.name # <<>> THEN skill.name ELSE skill.base
        skillName == sanitizeName(rawSkillName)
        canonicalBase == getCanonicalSkillsDir(isGlobal)
        canonicalDir == join(canonicalBase, <<skillName>>)
        agentBase == AgentBase(agentType, isGlobal)
        agentDir == join(agentBase, <<skillName>>)
    IN IF agentBase = undefined THEN Thrown(f)
       ELSE IF ~isPathSafe(canonicalBase, canonicalDir)
       THEN Returned(FALSE, agentDir, undefined, installMode, FALSE, TRAVERSAL, f,
                     "none", FALSE, "none")
       ELSE IF ~isPathSafe(agentBase, agentDir)
       THEN Returned(FALSE, agentDir, undefined, installMode, FALSE, TRAVERSAL, f,
                     "none", FALSE, "none")
       ELSE IF installMode = "copy"
       THEN \* copy mode: straight to the agent location
            Await(mkdir(f, agentDir), LAMBDA directMade :
            Await(IF directMade.err = "OK"
                  THEN copyDirectory(directMade.fs, skill.tree, agentDir, env.failConsumer)
                  ELSE directMade, LAMBDA direct :
            IF direct.err = "OK"
            THEN Returned(TRUE, agentDir, undefined, "copy", FALSE, "", direct.fs,
                          "copy", IsDirAt(f, canonicalDir), "none")
            ELSE Returned(FALSE, agentDir, undefined, installMode, FALSE, direct.err,
                          direct.fs, IF directMade.err = "OK" THEN "copy" ELSE "none",
                          IsDirAt(f, canonicalDir), "none")))
       ELSE \* symlink mode: canonical location, then the link or the fallback copy
       Await(ensureDirectory(f, canonicalDir), LAMBDA ensured :
       Await(IF ensured.err = "OK"
             THEN copyDirectory(ensured.fs, skill.tree, canonicalDir, env.failCanonical)
             ELSE ensured, LAMBDA copied :
       IF copied.err # "OK"
       THEN Returned(FALSE, agentDir, undefined, installMode, FALSE, copied.err, copied.fs,
                     "none", FALSE, "none")
       ELSE
       linkOrFallback(copied.fs, skill.tree, canonicalDir, agentDir, installMode, env)))

installMintlifySkillForAgent(f, skill, agentType, options, env) ==
    LET isGlobal == options.global
        installMode == options.mode
        skillName == sanitizeName(skill.mintlifySite)
        canonicalBase == getCanonicalSkillsDir(isGlobal)
        canonicalDir == join(canonicalBase, <<skillName>>)
        agentBase == AgentBase(agentType, isGlobal)
        agentDir == join(agentBase, <<skillName>>)
    IN IF agentBase = undefined THEN Thrown(f)
       ELSE IF ~isPathSafe(canonicalBase, canonicalDir)
       THEN Returned(FALSE, agentDir, undefined, installMode, FALSE, TRAVERSAL, f,
                     "none", FALSE, "none")
       ELSE IF ~isPathSafe(agentBase, agentDir)
       THEN Returned(FALSE, agentDir, undefined, installMode, FALSE, TRAVERSAL, f,
                     "none", FALSE, "none")
       ELSE IF installMode = "copy"
       THEN \* copy mode: straight to the agent location
            Await(mkdir(f, agentDir), LAMBDA directMade :
            Await(IF directMade.err = "OK"
                  THEN WriteOrFail(directMade.fs, join(agentDir, <<SKILL_MD>>), skill.content,
                                   env.failConsumer)
                  ELSE directMade, LAMBDA direct :
            IF direct.err = "OK"
            THEN Returned(TRUE, agentDir, undefined, "copy", FALSE, "", direct.fs,
                          "copy", IsDirAt(f, canonicalDir), "none")
            ELSE Returned(FALSE, agentDir, undefined, installMode, FALSE, direct.err,
                          direct.fs, IF directMade.err = "OK" THEN "copy" ELSE "none",
                          IsDirAt(f, canonicalDir), "none")))
       ELSE \* symlink mode: canonical location, then the link or the fallback copy
       Await(ensureDirectory(f, canonicalDir), LAMBDA ensured :
       Await(IF ensured.err = "OK"
             THEN WriteOrFail(ensured.fs, join(canonicalDir, <<SKILL_MD>>), skill.content,
                              env.failCanonical)
             ELSE ensured, LAMBDA copied :
       IF copied.err # "OK"
       THEN Returned(FALSE, agentDir, undefined, installMode, FALSE, copied.err, copied.fs,
                     "none", FALSE, "none")
       ELSE
       Await(createSymlink(copied.fs, canonicalDir, agentDir, env.link), LAMBDA sym :
       IF sym.created
       THEN Returned(TRUE, agentDir, canonicalDir, "symlink", FALSE, "", sym.fs,
                     IF sym.linked THEN "link" ELSE "none",
                     IsDirAt(sym.before, canonicalDir), "true")
       ELSE
       Await(rm(sym.fs, agentDir, TRUE, TRUE), LAMBDA cleaned :
       Await(mkdir(cleaned.fs, agentDir), LAMBDA fallbackMade :
       Await(IF fallbackMade.err = "OK"
             THEN WriteOrFail(fallbackMade.fs, join(agentDir, <<SKILL_MD>>), skill.content,
                              env.failConsumer)
             ELSE fallbackMade, LAMBDA fallback :
       IF fallback.err = "OK"
       THEN Returned(TRUE, agentDir, canonicalDir, "symlink", TRUE, "", fallback.fs,
                     "copy", IsDirAt(cleaned.fs, canonicalDir), "false")
       ELSE Returned(FALSE, agentDir, undefined, installMode, FALSE, fallback.err,
                     fallback.fs, IF fallbackMade.err = "OK" THEN "copy" ELSE "none",
                     IsDirAt(cleaned.fs, canonicalDir), "false")))))))

installRemoteSkillForAgent(f, skill, agentType, options, env) ==
    LET isGlobal == options.global
        installMode == options.mode
        skillName == sanitizeName(skill.installName)
        canonicalBase == getCanonicalSkillsDir(isGlobal)
        canonicalDir == join(canonicalBase, <<skillName>>)
        agentBase == AgentBase(agentType, isGlobal)
        agentDir == join(agentBase, <<skillName>>)
    IN IF agentBase = undefined THEN Thrown(f)
       ELSE IF ~isPathSafe(canonicalBase, canonicalDir)
       THEN Returned(FALSE, agentDir, undefined, installMode, FALSE, TRAVERSAL, f,
                     "none", FALSE, "none")
       ELSE IF ~isPathSafe(agentBase, agentDir)
       THEN Returned(FALSE, agentDir, undefined, installMode, FALSE, TRAVERSAL, f,
                     "none", FALSE, "none")
       ELSE IF installMode = "copy"
       THEN \* copy mode: straight to the agent location
            Await(mkdir(f, agentDir), LAMBDA directMade :
            Await(IF directMade.err = "OK"
                  THEN WriteOrFail(directMade.fs, join(agentDir, <<SKILL_MD>>), skill.content,
                                   env.failConsumer)
                  ELSE directMade, LAMBDA direct :
            IF direct.err = "OK"
            THEN Returned(TRUE, agentDir, undefined, "copy", FALSE, "", direct.fs,
                          "copy", IsDirAt(f, canonicalDir), "none")
            ELSE Returned(FALSE, agentDir, undefined, installMode, FALSE, direct.err,
                          direct.fs, IF directMade.err = "OK" THEN "copy" ELSE "none",
                          IsDirAt(f, canonicalDir), "none")))
       ELSE \* symlink mode: canonical location, then the link or the fallback copy
       Await(ensureDirectory(f, canonicalDir), LAMBDA ensured :
       Await(IF ensured.err = "OK"
             THEN WriteOrFail(ensured.fs, join(canonicalDir, <<SKILL_MD>>), skill.content,
                              env.failCanonical)
             ELSE ensured, LAMBDA copied :
       IF copied.err # "OK"
       THEN Returned(FALSE, agentDir, undefined, installMode, FALSE, copied.err, copied.fs,
                     "none", FALSE, "none")
       ELSE
       Await(createSymlink(copied.fs, canonicalDir, agentDir, env.link), LAMBDA sym :
       IF sym.created
       THEN Returned(TRUE, agentDir, canonicalDir, "symlink", FALSE, "", sym.fs,
                     IF sym.linked THEN "link" ELSE "none",
                     IsDirAt(sym.before, canonicalDir), "true")
       ELSE
       Await(rm(sym.fs, agentDir, TRUE, TRUE), LAMBDA cleaned :
       Await(mkdir(cleaned.fs, agentDir), LAMBDA fallbackMade :
       Await(IF fallbackMade.err = "OK"
             THEN WriteOrFail(fallbackMade.fs, join(agentDir, <<SKILL_MD>>), skill.content,
                              env.failConsumer)
             ELSE fallbackMade, LAMBDA fallback :
       IF fallback.err = "OK"
       THEN Returned(TRUE, agentDir, canonicalDir, "symlink", TRUE, "", fallback.fs,
                     "copy", IsDirAt(cleaned.fs, canonicalDir), "false")
       ELSE Returned(FALSE, agentDir, undefined, installMode, FALSE, fallback.err,
                     fallback.fs, IF fallbackMade.err = "OK" THEN "copy" ELSE "none",
                     IsDirAt(cleaned.fs, canonicalDir), "false")))))))

\* writeSkillFiles of installWellKnownSkillForAgent: the file map in its order;
\* an entry that leaves targetDir is skipped, the first failing write ends the loop
RECURSIVE WriteEntries(_, _, _, _, _)
WriteEntries(f, targetDir, files, i, failing) ==
    IF i > Len(files) THEN Ok(f)
    ELSE LET fullPath == join(targetDir, files[i].path)
             parentDir == dirname(fullPath)
         IN IF ~isPathSafe(targetDir, fullPath)
            THEN WriteEntries(f, targetDir, files, i + 1, failing)
            ELSE
            Await(IF parentDir # targetDir THEN mkdir(f, parentDir) ELSE Ok(f), LAMBDA made :
            Await(IF made.err = "OK"
                  THEN WriteOrFail(made.fs, fullPath, files[i].content, failing)
                  ELSE made, LAMBDA written :
            IF written.err # "OK" THEN written
            ELSE WriteEntries(written.fs, targetDir, files, i + 1, failing)))

writeSkillFiles(f, targetDir, files, failing) ==
    Await(mkdir(f, targetDir), LAMBDA made :
    IF made.err # "OK" THEN made ELSE WriteEntries(made.fs, targetDir, files, 1, failing))

installWellKnownSkillForAgent(f, skill, agentType, options, env) ==
    LET isGlobal == options.global
        installMode == options.mode
        skillName == sanitizeName(skill.installName)
        canonicalBase == getCanonicalSkillsDir(isGlobal)
        canonicalDir == join(canonicalBase, <<skillName>>)
        agentBase == AgentBase(agentType, isGlobal)
        agentDir == join(agentBase, <<skillName>>)
    IN IF agentBase = undefined THEN Thrown(f)
       ELSE IF ~isPathSafe(canonicalBase, canonicalDir)
       THEN Returned(FALSE, agentDir, undefined, installMode, FALSE, TRAVERSAL, f,
                     "none", FALSE, "none")
       ELSE IF ~isPathSafe(agentBase, agentDir)
       THEN Returned(FALSE, agentDir, undefined, installMode, FALSE, TRAVERSAL, f,
                     "none", FALSE, "none")
       ELSE IF installMode = "copy"
       THEN \* copy mode: straight to the agent location
            Await(mkdir(f, agentDir), LAMBDA directMade :
            Await(writeSkillFiles(f, agentDir, skill.files, env.failConsumer), LAMBDA direct :
            IF direct.err = "OK"
            THEN Returned(TRUE, agentDir, undefined, "copy", FALSE, "", direct.fs,
                          "copy", IsDirAt(f, canonicalDir), "none")
            ELSE Returned(FALSE, agentDir, undefined, installMode, FALSE, direct.err,
                          direct.fs, IF directMade.err = "OK" THEN "copy" ELSE "none",
                          IsDirAt(f, canonicalDir), "none")))
       ELSE \* symlink mode: canonical location, then the link or the fallback copy
       Await(writeSkillFiles(f, canonicalDir, skill.files, env.failCanonical), LAMBDA copied :
       IF copied.err # "OK"
       THEN Returned(FALSE, agentDir, undefined, installMode, FALSE, copied.err, copied.fs,
                     "none", FALSE, "none")
       ELSE
       Await(createSymlink(copied.fs, canonicalDir, agentDir, env.link), LAMBDA sym :
       IF sym.created
       THEN Returned(TRUE, agentDir, canonicalDir, "symlink", FALSE, "", sym.fs,
                     IF sym.linked THEN "link" ELSE "none",
                     IsDirAt(sym.before, canonicalDir), "true")
       ELSE
       Await(rm(sym.fs, agentDir, TRUE, TRUE), LAMBDA cleaned :
       Await(mkdir(cleaned.fs, agentDir), LAMBDA fallbackMade :
       Await(writeSkillFiles(cleaned.fs, agentDir, skill.files, env.failConsumer), LAMBDA fallback :
       IF fallback.err = "OK"
       THEN Returned(TRUE, agentDir, canonicalDir, "symlink", TRUE, "", fallback.fs,
                     "copy", IsDirAt(cleaned.fs, canonicalDir), "false")
       ELSE Returned(FALSE, agentDir, undefined, installMode, FALSE, fallback.err,
                     fallback.fs, IF fallbackMade.err = "OK" THEN "copy" ELSE "none",
                     IsDirAt(cleaned.fs, canonicalDir), "false"))))))

-----------------------------------------------------------------------------
(* parseSkillMd and listInstalledSkills *)

\* INSTALL_INTERNAL_SKILLS is not set in the modelled environment
shouldInstallInternalSkills == FALSE

\* parseSkillMd(path): ok = FALSE stands for the null it returns
parseSkillMd(f, skillMdPath, includeInternal) ==
    LET r == stat(f, skillMdPath)
        data == f[r.real].c
    IN IF ~(r.err = "OK" /\ KindAt(f, r.real) = "file")
       THEN [ok |-> FALSE, name |-> <<>>]
       ELSE IF data.name = <<>> \/ ~data.desc THEN [ok |-> FALSE, name |-> <<>>]
       ELSE IF data.internal /\ ~shouldInstallInternalSkills /\ ~includeInternal
       THEN [ok |-> FALSE, name |-> <<>>]
       ELSE [ok |-> TRUE, name |-> data.name]

IsSpace(c) == c \in {" ", "\t", "\n"}

\* .replace(/\s+/g, '-')
RECURSIVE ReplaceSpaces(_, _, _)
ReplaceSpaces(s, i, inRun) ==
    IF i > Len(s) THEN <<>>
    ELSE IF ~IsSpace(s[i]) THEN <<s[i]>> \o ReplaceSpaces(s, i + 1, FALSE)
    ELSE IF inRun THEN ReplaceSpaces(s, i + 1, TRUE)
    ELSE <<"-">> \o ReplaceSpaces(s, i + 1, TRUE)

\* .replace(/[\/\\:\0]/g, '')
StripSeparators(s) == SelectSeq(s, LAMBDA c : c \notin {"/", "\\", ":"})

\* the third fast-path name of listInstalledSkills
SlugName(name) == StripSeparators(ReplaceSpaces(toLowerCase(name), 1, FALSE))

\* strategy 1 and strategy 2 of listInstalledSkills for one agent base
FoundForAgent(f, agentBase, entryName, skillName) ==
    LET possibleNames == {entryName, sanitizeName(skillName), SlugName(skillName)}
        fast == \E possibleName \in possibleNames :
                    LET agentSkillDir == join(agentBase, <<possibleName>>)
                    IN isPathSafe(agentBase, agentSkillDir) /\ access(f, agentSkillDir)
        rd == readdir(f, agentBase)
        scan == rd.err = "OK"
                /\ \E q \in rd.entries :
                      LET candidateDir == join(agentBase, <<Last(q)>>)
                          candidateSkill == parseSkillMd(f, join(candidateDir, <<SKILL_MD>>), FALSE)
                      IN /\ f[q].k = "dir"
                         /\ isPathSafe(agentBase, candidateDir)
                         /\ candidateSkill.ok
                         /\ candidateSkill.name = skillName
    IN fast \/ scan

\* one iteration of `for (const scope of scopes)`: a throw inside the loop body
\* (path.join on an undefined agent base) is caught by the scope's try and ends
\* the scope with nothing pushed
ListScope(f, global, agentsToCheck) ==
    LET path == getCanonicalSkillsDir(global)
        rd == readdir(f, path)
        valid == {q \in rd.entries :
                     /\ f[q].k = "dir"
                     /\ access(f, join(path, <<Last(q), SKILL_MD>>))
                     /\ parseSkillMd(f, join(path, <<Last(q), SKILL_MD>>), FALSE).ok}
        throws == \E a \in agentsToCheck : AgentBase(a, global) = undefined
    IN IF rd.err # "OK" THEN {}
       ELSE IF valid # {} /\ throws THEN {}
       ELSE {[name |-> parseSkillMd(f, join(path, <<Last(q), SKILL_MD>>), FALSE).name,
              canonicalPath |-> join(path, <<Last(q)>>),
              scope |-> IF global THEN "global" ELSE "project",
              agents |-> {a \in agentsToCheck :
                             FoundForAgent(f, AgentBase(a, global), Last(q),
                                 parseSkillMd(f, join(path, <<Last(q), SKILL_MD>>), FALSE).name)}]
             : q \in valid}

\* options.global is "undefined", "project" or "global"; options.filtered says
\* whether options.agentFilter is given
listInstalledSkills(f, options) ==
    LET agentsToCheck == IF options.filtered THEN options.agentFilter ELSE AgentType
        scopes == IF options.global = "undefined" THEN {FALSE, TRUE}
                  ELSE {options.global = "global"}
    IN UNION {ListScope(f, g, agentsToCheck) : g \in scopes}

-----------------------------------------------------------------------------
(* Inputs: skills, environments, prior filesystem states *)

FOO == <<"F", "o", "o">>
FILE_A == <<"a">>
FILE_B == <<"b">>
DIR_D == <<"d">>
FILE_OLD == <<"o">>
FILE_OUT == <<"e">>
ELSEWHERE == <<"x">>
RENAMED == <<"r">>
GONE == <<"g">>

Md(name, v) == [name |-> name, desc |-> TRUE, internal |-> FALSE, v |-> v]
Plain(v) == [name |-> <<>>, desc |-> FALSE, internal |-> FALSE, v |-> v]

FileEntry(c) == [k |-> "file", c |-> c, sub |-> <<>>]
DirEntry(sub) == [k |-> "dir", c |-> NoContent, sub |-> sub]
LinkToFile(c) == [k |-> "link", to |-> "file", c |-> c, sub |-> <<>>]
LinkToDir(sub) == [k |-> "link", to |-> "dir", c |-> NoContent, sub |-> sub]

\* two versions of one skill directory: the first has a file and a README the
\* second lacks, the second a subdirectory the first lacks
TreeV1 == (SKILL_MD :> FileEntry(Md(FOO, 1))) @@ (FILE_A :> FileEntry(Plain(1)))
          @@ (README_MD :> FileEntry(Plain(1)))
TreeV2 == (SKILL_MD :> FileEntry(Md(FOO, 2)))
          @@ (DIR_D :> DirEntry((FILE_B :> FileEntry(Plain(2)))))

Skills == {[name |-> FOO, base |-> <<"s">>, tree |-> t] : t \in {TreeV1, TreeV2}}

MintlifySkills == {[name |-> FOO, mintlifySite |-> FOO, content |-> Md(FOO, 1)]}

RemoteSkills == {[name |-> FOO, installName |-> FOO, content |-> Md(FOO, 2)]}

\* a well-known skill's file map, in its iteration order, with one entry whose
\* path leaves the skill directory
WellKnownSkills ==
    {[name |-> FOO, installName |-> FOO,
      files |-> <<[path |-> <<SKILL_MD>>, content |-> Md(FOO, 2)],
                  [path |-> << <<".", ".">>, FILE_OUT>>, content |-> Plain(2)],
                  [path |-> <<DIR_D, FILE_B>>, content |-> Plain(2)]>>]}

Installers == {"directory", "mintlify", "remote", "wellknown"}

SkillsOf(installer) ==
    CASE installer = "directory" -> Skills
      [] installer = "mintlify" -> MintlifySkills
      [] installer = "remote" -> RemoteSkills
      [] installer = "wellknown" -> WellKnownSkills

RunInstaller(installer, f, skill, agentType, options, env) ==
    CASE installer = "directory" -> installSkillForAgent(f, skill, agentType, options, env)
      [] installer = "mintlify" -> installMintlifySkillForAgent(f, skill, agentType, options, env)
      [] installer = "remote" -> installRemoteSkillForAgent(f, skill, agentType, options, env)
      [] installer = "wellknown" -> installWellKnownSkillForAgent(f, skill, agentType, options, env)

\* at most one refused write per call: in the canonical copy, or in the consumer
\* copy that follows a refused link or a copy-mode install
Envs ==
    {[link |-> l, failCanonical |-> {}, failConsumer |-> {}] : l \in BOOLEAN}
    \cup {[link |-> TRUE, failCanonical |-> {n}, failConsumer |-> {}] : n \in {SKILL_MD, FILE_B}}
    \cup {[link |-> FALSE, failCanonical |-> {}, failConsumer |-> {n}] : n \in {SKILL_MD, FILE_B}}

NoFault(env) == env.failCanonical = {} /\ env.failConsumer = {}

Sites == {[agent |-> a, global |-> g] : a \in AgentType, g \in BOOLEAN}

ScopeRoot(global) == IF global THEN homedir ELSE cwd

SkillDirName == sanitizeName(FOO)
CanonicalDirOf(global) == join(getCanonicalSkillsDir(global), <<SkillDirName>>)
AgentDirOf(st) == join(AgentBase(st.agent, st.global), <<SkillDirName>>)

\* the content an earlier install left: a descriptor and a file later versions lack
OldFiles(f, dir) ==
    Put(Put(mkdir(f, dir).fs, Append(dir, SKILL_MD), FileNode(Md(FOO, 0))),
        Append(dir, FILE_OLD), FileNode(Plain(0)))

\* what is at path p before the first call: nothing, a directory of an earlier
\* install, or a link that is stale (to a directory elsewhere), broken or circular
Place(f, p, global, state) ==
    LET parent == mkdir(f, dirname(p)).fs
        elsewhere == Append(ScopeRoot(global), ELSEWHERE)
    IN CASE state = "absent" -> f
         [] state = "dir" -> OldFiles(f, p)
         [] state = "stale" ->
                Put(OldFiles(parent, elsewhere), p, LinkNode(relative(dirname(p), elsewhere)))
         [] state = "broken" ->
                Put(parent, p, LinkNode(relative(dirname(p), Append(ScopeRoot(global), GONE))))
         [] state = "circular" -> Put(parent, p, LinkNode([up |-> 0, down |-> <<Last(p)>>]))
         [] state = "correct" ->
                Put(parent, p, LinkNode(relative(dirname(p), CanonicalDirOf(global))))

BaseFs == mkdir(mkdir(<<>>, cwd).fs, homedir).fs

\* the consumer root itself a link to the canonical root
RootLinked(f, st) ==
    LET agentBase == AgentBase(st.agent, st.global)
        canonicalBase == getCanonicalSkillsDir(st.global)
        g == mkdir(mkdir(f, canonicalBase).fs, dirname(agentBase)).fs
    IN Put(g, agentBase, LinkNode(relative(dirname(agentBase), canonicalBase)))

\* the folder of the agent directory whose name differs from the skill's
RenamedDirOf(st) == join(AgentBase(st.agent, st.global), <<RENAMED>>)

PriorFs(st, canonicalState, consumerState) ==
    LET f1 == Place(BaseFs, CanonicalDirOf(st.global), st.global, canonicalState)
    IN IF consumerState = "rootlink" THEN RootLinked(f1, st)
       ELSE IF consumerState = "renamed" THEN OldFiles(f1, RenamedDirOf(st))
       ELSE IF consumerState = "renamedlink"
       THEN Place(f1, RenamedDirOf(st), st.global, "stale")
       ELSE Place(f1, AgentDirOf(st), st.global, consumerState)

\* The prior states explored.  Every kind of canonical and consumer state for
\* the project directory of one ordinary agent; for the other sites the states
\* that differ in kind.  An agent with no directory in the scope, or whose
\* directory is the canonical one, has no consumer state of its own.
MainSite == [agent |-> "claude-code", global |-> FALSE]

CanonicalStatesOf(st) ==
    IF st = MainSite \/ AgentBase(st.agent, st.global) = getCanonicalSkillsDir(st.global)
    THEN {"absent", "dir", "stale", "broken", "circular"}
    ELSE {"absent", "dir"}

ConsumerStatesOf(st) ==
    IF AgentBase(st.agent, st.global) = undefined
       \/ AgentBase(st.agent, st.global) = getCanonicalSkillsDir(st.global)
    THEN {"absent"}
    ELSE IF st = MainSite
    THEN {"absent", "dir", "stale", "broken", "circular", "correct", "rootlink",
          "renamed", "renamedlink"}
    ELSE {"absent", "correct", "rootlink"}

-----------------------------------------------------------------------------
(* The state machine: install calls of one skill addressed to one site *)

MaxCalls == 2

NoCall == [n |-> 0]
NoList == [done |-> FALSE]
NoPlan == [targets |-> <<>>]
NoApplication == [fn |-> "none"]
NoLock == [skills |-> {}, threw |-> FALSE]

Init ==
    /\ site \in Sites
    /\ \E cs \in CanonicalStatesOf(site) : \E as \in ConsumerStatesOf(site) :
           fs = PriorFs(site, cs, as)
    /\ calls = 0
    /\ last = NoCall
    /\ prev = NoCall
    /\ listed = NoList
    /\ pc = "none" /\ plan = NoPlan /\ pair = 0 /\ tasks = {} /\ results = <<>> /\ lock = NoLock
    /\ applied = NoApplication

\* linkPath is a link and what it resolves to is the directory target
IsCorrectLink(f, linkPath, target) ==
    /\ linkPath # undefined
    /\ lstat(f, linkPath).err = "OK" /\ lstat(f, linkPath).k = "link"
    /\ stat(f, linkPath).err = "OK" /\ stat(f, target).err = "OK"
    /\ stat(f, linkPath).real = stat(f, target).real
    /\ KindAt(f, stat(f, target).real) = "dir"

\* the files below a directory, by relative path, with their contents
FilesUnder(f, p) ==
    LET r == stat(f, p)
    IN IF r.err # "OK" THEN {}
       ELSE {<<SubSeq(q, Len(r.real) + 1, Len(q)), f[q].c>> :
                q \in {x \in DOMAIN f : IsPrefix(r.real, x) /\ f[x].k = "file"}}

\* the directory a stale link of the prior state leads to
Elsewhere(global) == Append(ScopeRoot(global), ELSEWHERE)

\* what the filesystem holds at and below a physical path
Below(f, dir) == [x \in {y \in DOMAIN f : IsPrefix(dir, y)} |-> f[x]]

\* what lstat finds at the consumer path of a site
ConsumerKind(f, st) ==
    IF AgentBase(st.agent, st.global) = undefined THEN "none"
    ELSE IF lstat(f, AgentDirOf(st)).err # "OK" THEN "none"
    ELSE lstat(f, AgentDirOf(st)).k

\* one call of an installer, from its first statement to its return or throw;
\* a later call of the run installs the same skill again, in the same mode
Install(installer, skill, mode, env) ==
    /\ calls < MaxCalls
    /\ calls > 0 => installer = last.installer /\ mode = last.mode
                    /\ skill.name = last.skill.name
    /\ \E r \in {RunInstaller(installer, fs, skill, site.agent,
                              [global |-> site.global, mode |-> mode], env)} :
          /\ fs' = r.fs
          /\ last' = [n |-> calls + 1, installer |-> installer, skill |-> skill,
                      agent |-> site.agent, global |-> site.global, mode |-> mode,
                      env |-> env, outcome |-> r.outcome, success |-> r.success,
                      path |-> r.path, canonicalPath |-> r.canonicalPath,
                      resultMode |-> r.mode, symlinkFailed |-> r.symlinkFailed,
                      error |-> r.error, view |-> r.view, canonAtView |-> r.canonAtView,
                      symlinkCreated |-> r.symlinkCreated,
                      changed |-> r.fs # fs,
                      canonicalBefore |-> lstat(fs, CanonicalDirOf(site.global)).k,
                      consumerBefore |-> ConsumerKind(fs, site),
                      canonicalTouched |-> Below(r.fs, CanonicalDirOf(site.global))
                                           # Below(fs, CanonicalDirOf(site.global)),
                      strayWrite |-> Below(r.fs, Elsewhere(site.global))
                                     # Below(fs, Elsewhere(site.global)),
                      linkBefore |-> IsCorrectLink(fs, AgentDirOf(site),
                                                   CanonicalDirOf(site.global))]
    /\ calls' = calls + 1
    /\ prev' = last
    /\ listed' = NoList
    /\ UNCHANGED <<site, applied, batchVars>>

InstallStep ==
    \E installer \in Installers : \E skill \in SkillsOf(installer) :
        \E mode \in {"symlink", "copy"} : \E env \in Envs :
            Install(installer, skill, mode, env)

Next == InstallStep

Spec == Init /\ [][Next]_vars

-----------------------------------------------------------------------------
(* Install calls followed by listings *)

MaxListedCalls == 1

ListOptions ==
    {[global |-> g, filtered |-> b, agentFilter |-> IF b THEN {site.agent} ELSE {}] :
        g \in {"undefined", "project", "global"}, b \in BOOLEAN}

\* one call of listInstalledSkills
List(options) ==
    /\ ~listed.done
    /\ listed' = [done |-> TRUE, options |-> options,
                  result |-> listInstalledSkills(fs, options)]
    /\ UNCHANGED <<fs, site, calls, last, prev, applied, batchVars>>

NextList ==
    \/ (calls < MaxListedCalls /\ InstallStep)
    \/ \E options \in ListOptions : List(options)

SpecList == Init /\ [][NextList]_vars

-----------------------------------------------------------------------------
(* runAdd: the overwrite check, then the install loop, one pair after the     *)
(* other.  copyDirectory starts its child copies together and awaits them     *)
(* with Promise.all, which rejects at the first child that fails while the    *)
(* others are still running; each child copy is a task that takes its step on *)
(* its own.                                                                   *)

\* isSkillInstalled(skillName, agentType, options): thrown tells that path.join
\* threw on an undefined base
isSkillInstalled(f, skillName, agentType, options) ==
    LET sanitized == sanitizeName(skillName)
        targetBase == AgentBase(agentType, options.global)
        skillDir == join(targetBase, <<sanitized>>)
    IN IF targetBase = undefined THEN [thrown |-> TRUE, installed |-> FALSE]
       ELSE IF ~isPathSafe(targetBase, skillDir) THEN [thrown |-> FALSE, installed |-> FALSE]
       ELSE [thrown |-> FALSE, installed |-> access(f, skillDir)]

\* the skill of the batch: files, an excluded file and a subdirectory
BatchSkill == [name |-> FOO, base |-> <<"s">>, tree |-> TreeV1 @@ TreeV2]

BatchTargets ==
    {<<"claude-code", "amp">>, <<"amp", "claude-code">>, <<"claude-code", "replit">>}

Plans ==
    {[targets |-> t, global |-> g, mode |-> m, skill |-> BatchSkill, env |-> e] :
        t \in BatchTargets, g \in BOOLEAN, m \in {"symlink", "copy"}, e \in Envs}

InitBatch ==
    /\ plan \in Plans
    /\ fs = BaseFs
    /\ pc = "check" /\ pair = 1 /\ tasks = {} /\ results = <<>> /\ lock = NoLock
    /\ site = MainSite /\ calls = 0 /\ last = NoCall /\ prev = NoCall /\ listed = NoList
    /\ applied = NoApplication

PlanOptions == [global |-> plan.global, mode |-> plan.mode]

\* the overwrite check: isSkillInstalled for every pair, before anything is
\* installed; what it throws ends runAdd in its catch block
OverwriteCheck ==
    /\ pc = "check"
    /\ pc' = IF \E i \in 1..Len(plan.targets) :
                   isSkillInstalled(fs, plan.skill.name, plan.targets[i], PlanOptions).thrown
             THEN "aborted" ELSE "loop"
    /\ UNCHANGED <<fs, plan, pair, tasks, results, lock, callVars>>

\* the children copyDirectory(src, dest) starts for install call n
Spawn(n, src, dest, failing) ==
    {[n |-> n, path |-> Append(dest, name), parent |-> dest, entry |-> src[name],
      failing |-> failing, st |-> "running"] :
        name \in {x \in DOMAIN src : ~isExcluded(x, src[x].k = "dir")}}

Settle(t, st) == (tasks \ {t}) \cup {[t EXCEPT !.st = st]}

Unsettled(t) == t.st \in {"running", "waiting"}

BatchResult(r) ==
    [agent |-> plan.targets[pair], success |-> r.success, mode |-> r.mode,
     symlinkFailed |-> r.symlinkFailed, error |-> r.error]

PushResult(r) ==
    /\ results' = Append(results, BatchResult(r))
    /\ pair' = pair + 1
    /\ pc' = IF pair + 1 > Len(plan.targets) THEN "done" ELSE "loop"

\* installSkillForAgent for the pair at hand, up to the Promise.all of its
\* directory copy
BeginInstall ==
    /\ pc = "loop"
    /\ LET agentType == plan.targets[pair]
           skillName == sanitizeName(plan.skill.name)
           canonicalBase == getCanonicalSkillsDir(plan.global)
           canonicalDir == join(canonicalBase, <<skillName>>)
           agentBase == AgentBase(agentType, plan.global)
           agentDir == join(agentBase, <<skillName>>)
           dest == IF plan.mode = "copy" THEN agentDir ELSE canonicalDir
           failing == IF plan.mode = "copy" THEN plan.env.failConsumer
                      ELSE plan.env.failCanonical
       IN IF agentBase = undefined
          THEN pc' = "aborted" /\ UNCHANGED <<fs, pair, tasks, results>>
          ELSE IF ~isPathSafe(canonicalBase, canonicalDir) \/ ~isPathSafe(agentBase, agentDir)
          THEN /\ PushResult(Returned(FALSE, agentDir, undefined, plan.mode, FALSE, TRAVERSAL,
                                      fs, "none", FALSE, "none"))
               /\ UNCHANGED <<fs, tasks>>
          ELSE \E made \in {IF plan.mode = "copy" THEN mkdir(fs, agentDir)
                             ELSE ensureDirectory(fs, canonicalDir)} :
               IF made.err # "OK"
               THEN /\ PushResult(Returned(FALSE, agentDir, undefined, plan.mode, FALSE,
                                           made.err, made.fs, "none", FALSE, "none"))
                    /\ fs' = made.fs
                    /\ UNCHANGED tasks
               ELSE /\ fs' = made.fs
                    /\ tasks' = tasks \cup Spawn(pair, plan.skill.tree, dest, failing)
                    /\ pc' = "copying"
                    /\ UNCHANGED <<pair, results>>
    /\ UNCHANGED <<plan, lock, callVars>>

\* a child that is a file: fs.cp
CopyFile(t) ==
    /\ t \in tasks /\ t.st = "running" /\ t.entry.k = "file"
    /\ \E r \in {cp(fs, t.entry, t.path, t.failing)} :
          /\ fs' = r.fs
          /\ tasks' = Settle(t, IF r.err = "OK" THEN "done" ELSE "failed")
    /\ UNCHANGED <<pc, plan, pair, results, lock, callVars>>

\* a child that is a directory: copyDirectory up to its own Promise.all
CopySubdirectory(t) ==
    /\ t \in tasks /\ t.st = "running" /\ t.entry.k = "dir"
    /\ \E made \in {mkdir(fs, t.path)} :
          /\ fs' = made.fs
          /\ tasks' = IF made.err # "OK" THEN Settle(t, "failed")
                      ELSE Settle(t, "waiting")
                           \cup Spawn(t.n, t.entry.sub, t.path, t.failing)
    /\ UNCHANGED <<pc, plan, pair, results, lock, callVars>>

ChildrenOf(n, dest) == {c \in tasks : c.n = n /\ c.parent = dest}

\* what Promise.all over these children has come to
AllOf(children) ==
    IF \E c \in children : c.st = "failed" THEN "rejected"
    ELSE IF \A c \in children : c.st = "done" THEN "fulfilled"
    ELSE "pending"

\* the Promise.all of a subdirectory settles
SubdirectorySettles(t) ==
    /\ t \in tasks /\ t.st = "waiting"
    /\ AllOf(ChildrenOf(t.n, t.path)) # "pending"
    /\ tasks' = Settle(t, IF AllOf(ChildrenOf(t.n, t.path)) = "rejected"
                          THEN "failed" ELSE "done")
    /\ UNCHANGED <<fs, pc, plan, pair, results, lock, callVars>>

\* the Promise.all of the install call's copy settles: the call goes on to its
\* link or its result, and the loop to the next pair
EndInstall ==
    /\ pc = "copying"
    /\ LET agentType == plan.targets[pair]
           skillName == sanitizeName(plan.skill.name)
           canonicalDir == join(getCanonicalSkillsDir(plan.global), <<skillName>>)
           agentDir == join(AgentBase(agentType, plan.global), <<skillName>>)
           dest == IF plan.mode = "copy" THEN agentDir ELSE canonicalDir
           all == AllOf(ChildrenOf(pair, dest))
       IN /\ all # "pending"
          /\ IF all = "rejected"
             THEN /\ PushResult(Returned(FALSE, agentDir, undefined, plan.mode, FALSE,
                                         "EACCES", fs, "none", FALSE, "none"))
                  /\ UNCHANGED fs
             ELSE IF plan.mode = "copy"
             THEN /\ PushResult(Returned(TRUE, agentDir, undefined, "copy", FALSE, "", fs,
                                         "copy", FALSE, "none"))
                  /\ UNCHANGED fs
             ELSE \E linked \in {linkOrFallback(fs, plan.skill.tree, canonicalDir, agentDir,
                                                plan.mode, plan.env)} :
                     /\ PushResult(linked)
                     /\ fs' = linked.fs
    /\ UNCHANGED <<plan, tasks, lock, callVars>>

\* a variant that would write lock entries in either scope
LocksSkillsAnyScope(successful, installGlobally, normalizedSource) ==
    successful # {} /\ normalizedSource

\* the condition under which runAdd writes lock entries: some install
\* succeeded, the scope is global, the source is a remote one
LocksSkills(successful, installGlobally, normalizedSource) ==
    successful # {} /\ installGlobally /\ normalizedSource

\* after the loop: the lock entry of each skill with a successful install;
\* what fetchSkillFolderHash or addSkillToLock throws is swallowed
RecordLock(normalizedSource, throws) ==
    /\ pc = "done"
    /\ LET successful == {i \in DOMAIN results : results[i].success}
       IN lock' = IF LocksSkills(successful, plan.global, normalizedSource)
                  THEN (IF throws THEN [lock EXCEPT !.threw = TRUE]
                        ELSE [lock EXCEPT !.skills = @ \cup {plan.skill.name}])
                  ELSE lock
    /\ pc' = "reported"
    /\ UNCHANGED <<fs, plan, pair, tasks, results, callVars>>

NextBatch ==
    \/ OverwriteCheck
    \/ BeginInstall
    \/ \E t \in tasks : CopyFile(t)
    \/ \E t \in tasks : CopySubdirectory(t)
    \/ \E t \in tasks : SubdirectorySettles(t)
    \/ EndInstall
    \/ \E normalizedSource \in BOOLEAN : \E throws \in BOOLEAN :
           RecordLock(normalizedSource, throws)

SpecBatch == InitBatch /\ [][NextBatch]_vars

-----------------------------------------------------------------------------
(* The pure functions, applied to arguments drawn from bounded sets *)

Repeat(c, n) == [i \in 1..n |-> c]

\* the length of the long name of the truncation test
LongNameLen == 300

\* how far the run of plain characters of a name may fall short of, or pass,
\* the truncation point
MaxSlack == 3

FillLens ==
    (0..MaxSlack)
    \cup {n \in (MaxNameLen - MaxSlack)..(MaxNameLen + MaxSlack) : n >= 0}
    \cup {LongNameLen}

\* what a name starts with: nothing, traversal steps, an absolute or a drive
\* prefix, dots and hyphens, capitals, disallowed characters
NameHeads ==
    {<<>>, <<".", ".", "/">>, <<".", ".", "\\">>, <<"/">>, <<"C", ":", "\\">>,
     <<".">>, <<"-", ".">>, <<"A">>, <<"@", "#">>, <<"a", " ", " ">>}

\* what a name ends with
NameTails ==
    {<<>>, <<".">>, <<"-">>, <<".", "b">>, <<"-", "b">>, <<"@", "b">>, <<".", ".">>,
     <<"/", ".", ".">>, <<"_">>}

Names ==
    {h \o Repeat("a", n) \o t : h \in NameHeads, n \in FillLens, t \in NameTails}
    \cup {UNNAMED_SKILL}

\* sanitizeName(name) for a name given from outside
Sanitize(name) ==
    /\ applied.fn = "none"
    /\ applied' = [fn |-> "sanitizeName", from |-> "input", input |-> name,
                   name |-> name, value |-> sanitizeName(name)]
    /\ UNCHANGED <<fs, site, calls, last, prev, listed, batchVars>>

\* sanitizeName applied to the name the previous application returned
SanitizeAgain ==
    /\ applied.fn = "sanitizeName" /\ applied.from = "input"
    /\ applied' = [fn |-> "sanitizeName", from |-> "value", input |-> applied.name,
                   name |-> applied.value, value |-> sanitizeName(applied.value)]
    /\ UNCHANGED <<fs, site, calls, last, prev, listed, batchVars>>

\* the deepest path given to isPathSafe
MaxDepth == 3

\* path segments: a name, a name that starts with it, a parent step
PathSegments == {<<"a">>, <<"a", "b">>, <<".", ".">>}

PathsUpTo(n) == UNION {[1..k -> PathSegments] : k \in 0..n}

\* isPathSafe(basePath, targetPath) on two absolute paths
PathSafe(basePath, targetPath) ==
    /\ applied.fn = "none"
    /\ applied' = [fn |-> "isPathSafe", basePath |-> basePath, targetPath |-> targetPath,
                   value |-> isPathSafe(basePath, targetPath)]
    /\ UNCHANGED <<fs, site, calls, last, prev, listed, batchVars>>

\* source directories for copyDirectory: a subdirectory, a .git directory and a
\* link to a directory, each holding any of a file, a README.md, a
\* metadata.json, an entry named _x and a .git directory; next to them a file,
\* a README.md and a link to a file
UNDERSCORED == <<"_", "x">>
LINK_L == <<"l">>
LINK_F == <<"f">>

TreeOf(names, entryOf) == [n \in names |-> entryOf[n]]

InnerEntries ==
    (FILE_B :> FileEntry(Plain(1))) @@ (README_MD :> FileEntry(Plain(1)))
    @@ (METADATA_JSON :> FileEntry(Plain(1))) @@ (UNDERSCORED :> FileEntry(Plain(1)))
    @@ (DOT_GIT :> DirEntry((FILE_B :> FileEntry(Plain(1)))))

InnerTrees == {TreeOf(names, InnerEntries) : names \in SUBSET DOMAIN InnerEntries}

OuterEntries(inner) ==
    (FILE_A :> FileEntry(Plain(1))) @@ (README_MD :> FileEntry(Plain(1)))
    @@ (DIR_D :> DirEntry(inner)) @@ (DOT_GIT :> DirEntry(inner))
    @@ (LINK_L :> LinkToDir(inner)) @@ (LINK_F :> LinkToFile(Plain(2)))

SourceTrees ==
    UNION {{TreeOf(names, OuterEntries(inner)) : names \in SUBSET DOMAIN OuterEntries(inner)}
           : inner \in InnerTrees}

\* the destination of the copy: a path that does not exist yet
CopyDest == join(cwd, <<ELSEWHERE>>)

\* one call copyDirectory(src, dest) into a destination that does not exist
CopyDirectory(src) ==
    /\ applied.fn = "none"
    /\ \E r \in {copyDirectory(fs, src, CopyDest, {})} :
           /\ fs' = r.fs
           /\ applied' = [fn |-> "copyDirectory", src |-> src, err |-> r.err]
    /\ UNCHANGED <<site, calls, last, prev, listed, batchVars>>

\* getSkillDisplayName: skill.name || basename(skill.path)
getSkillDisplayName(skill) == IF skill.name # <<>> THEN skill.name ELSE Last(skill.path)

\* a variant that would accept an input that is only the beginning of the name
NameMatchesPart(input, skill) == IsPrefix(input, toLowerCase(skill.name))

\* input === name || input === displayName, on the lower-cased strings
NameMatches(input, skill) ==
    \/ input = toLowerCase(skill.name)
    \/ input = toLowerCase(getSkillDisplayName(skill))

filterSkills(skills, inputNames) ==
    LET normalizedInputs == [i \in DOMAIN inputNames |-> toLowerCase(inputNames[i])]
    IN SelectSeq(skills, LAMBDA skill :
                   \E i \in DOMAIN normalizedInputs : NameMatches(normalizedInputs[i], skill))

\* the names of the skills and of the --skill values
KEBAB_NAME == <<"c", "o", "n", "v", "e", "x", "-", "b", "e", "s", "t", "-", "p", "r", "a", "c", "t", "i", "c", "e", "s">>
WORDS_NAME == <<"C", "o", "n", "v", "e", "x", " ", "B", "e", "s", "t", " ", "P", "r", "a", "c", "t", "i", "c", "e", "s">>
SIMPLE_NAME == <<"s", "i", "m", "p", "l", "e", "-", "s", "k", "i", "l", "l">>
FOO_NAME == <<"f", "o", "o">>
BAR_NAME == <<"b", "a", "r">>
FOO_UPPER == <<"F", "O", "O">>
CONVEX == <<"C", "o", "n", "v", "e", "x">>
BEST == <<"B", "e", "s", "t">>
PRACTICES == <<"P", "r", "a", "c", "t", "i", "c", "e", "s">>
STAR == <<"*">>

makeSkill(name) == [name |-> name, path |-> <<<<"t", "m", "p">>, <<"s", "k", "i", "l", "l">>>>]

\* the discovered skills: parseSkillMd gives every one of them a name
TestSkills ==
    <<makeSkill(KEBAB_NAME), makeSkill(WORDS_NAME), makeSkill(SIMPLE_NAME),
      makeSkill(FOO_NAME), makeSkill(BAR_NAME)>>

InputNames ==
    {FOO_NAME, FOO_UPPER, BAR_NAME, CONVEX, BEST, PRACTICES, WORDS_NAME, KEBAB_NAME, STAR}

MaxInputs == 3

RECURSIVE SeqsUpTo(_, _)
SeqsUpTo(S, n) ==
    IF n = 0 THEN {<<>>}
    ELSE SeqsUpTo(S, n - 1) \cup {Append(q, x) : q \in {r \in SeqsUpTo(S, n - 1) : Len(r) = n - 1}, x \in S}

\* one call filterSkills(skills, inputNames)
Filter(skills, inputNames) ==
    /\ applied.fn = "none"
    /\ applied' = [fn |-> "filterSkills", skills |-> skills, inputNames |-> inputNames,
                   value |-> filterSkills(skills, inputNames)]
    /\ UNCHANGED <<fs, site, calls, last, prev, listed, batchVars>>

\* runAdd, from the discovered skills to selectedSkills: the outcomes of the
\* step.  exit is the status the process exits with, "none" when the command
\* goes on to install selected; the prompt may return any non-empty choice or
\* be cancelled
Exits(code) == [exit |-> code, selected |-> <<>>]
Selects(skills) == [exit |-> "none", selected |-> skills]

SelectedSkills(skills, options) ==
    IF skills = <<>> THEN {Exits("1")}
    ELSE IF options.list THEN {Exits("0")}
    ELSE IF options.skill # <<>>
    THEN {IF filterSkills(skills, options.skill) = <<>> THEN Exits("1")
          ELSE Selects(filterSkills(skills, options.skill))}
    ELSE IF Len(skills) = 1 THEN {Selects(skills)}
    ELSE IF options.yes THEN {Selects(skills)}
    ELSE {Exits("0")}
         \cup {Selects(SelectSeq(skills, LAMBDA x : x \in chosen))
                : chosen \in SUBSET {skills[i] : i \in DOMAIN skills} \ {{}}}

\* the skills discoverSkills may return, and the values of --skill (none, one
\* name, a name in another case with a second name, the wildcard)
DiscoveredLists == {<<>>, <<makeSkill(FOO_NAME)>>, TestSkills}
SkillOptions == {<<>>, <<FOO_NAME>>, <<FOO_UPPER, BAR_NAME>>, <<CONVEX>>, <<STAR>>}
AddOptions == [skill : SkillOptions, yes : BOOLEAN, list : BOOLEAN]

SelectSkills(skills, options) ==
    /\ applied.fn = "none"
    /\ \E r \in SelectedSkills(skills, options) :
           applied' = [fn |-> "runAdd", skills |-> skills, options |-> options,
                       exit |-> r.exit, selected |-> r.selected]
    /\ UNCHANGED <<fs, site, calls, last, prev, listed, batchVars>>

\* file maps for writeSkillFiles: entries in the directory, in a subdirectory,
\* leaving the directory at once or after a step down, and returning into it
PARENT == <<".", ".">>

FileMapEntries ==
    {[path |-> <<SKILL_MD>>, content |-> Md(FOO, 2)],
     [path |-> <<DIR_D, FILE_B>>, content |-> Plain(2)],
     [path |-> <<DIR_D, PARENT, FILE_A>>, content |-> Plain(1)],
     [path |-> <<PARENT, FILE_OUT>>, content |-> Plain(2)],
     [path |-> <<DIR_D, PARENT, PARENT, FILE_OUT>>, content |-> Plain(1)],
     [path |-> <<PARENT, PARENT, FILE_OUT>>, content |-> Plain(2)]}

MaxFiles == 3

FileMaps ==
    {m \in SeqsUpTo(FileMapEntries, MaxFiles) :
        \A i, j \in DOMAIN m : m[i].path = m[j].path => i = j}

\* the directory written to, and what may be there before the call: nothing,
\* a directory of an earlier install, a link to a directory elsewhere
WriteTarget == CanonicalDirOf(FALSE)
TargetStates == {"absent", "dir", "stale"}

\* one call writeSkillFiles(targetDir) for a file map
WriteSkillFiles(files, state) ==
    /\ applied.fn = "none"
    /\ \E before \in {Place(mkdir(fs, dirname(WriteTarget)).fs, WriteTarget, FALSE, state)} :
       \E r \in {writeSkillFiles(before, WriteTarget, files, {})} :
           /\ fs' = r.fs
           /\ applied' = [fn |-> "writeSkillFiles", files |-> files, targetDir |-> WriteTarget,
                          before |-> before, err |-> r.err]
    /\ UNCHANGED <<site, calls, last, prev, listed, batchVars>>

\* the install loop of runAdd for two selected skills and one agent: the
\* first skill carries the first version of the files, the second the second
SkillNamed(name, tree) == [name |-> name, base |-> <<"s">>, tree |-> tree]

InstallBoth(first, second, mode) ==
    /\ applied.fn = "none"
    /\ \E env \in {[link |-> TRUE, failCanonical |-> {}, failConsumer |-> {}]} :
       \E options \in {[global |-> FALSE, mode |-> mode]} :
       \E r1 \in {installSkillForAgent(fs, SkillNamed(first.name, TreeV1), MainSite.agent,
                                        options, env)} :
       \E r2 \in {installSkillForAgent(r1.fs, SkillNamed(second.name, TreeV2), MainSite.agent,
                                        options, env)} :
           /\ fs' = r2.fs
           /\ applied' = [fn |-> "installLoop", names |-> <<first.name, second.name>>,
                          mode |-> mode,
                          success |-> <<r1.success, r2.success>>,
                          path |-> <<r1.path, r2.path>>,
                          canonicalPath |-> <<r1.canonicalPath, r2.canonicalPath>>,
                          afterFirst |-> FilesUnder(r1.fs, r1.path)]
    /\ UNCHANGED <<site, calls, last, prev, listed, batchVars>>

InitPure ==
    /\ applied = NoApplication
    /\ fs = BaseFs
    /\ site = MainSite /\ calls = 0 /\ last = NoCall /\ prev = NoCall /\ listed = NoList
    /\ pc = "none" /\ plan = NoPlan /\ pair = 0 /\ tasks = {} /\ results = <<>> /\ lock = NoLock

NextPure ==
    \/ \E name \in Names : Sanitize(name)
    \/ SanitizeAgain
    \/ \E basePath \in PathsUpTo(MaxDepth) : \E targetPath \in PathsUpTo(MaxDepth) :
           PathSafe(basePath, targetPath)
    \/ \E src \in SourceTrees : CopyDirectory(src)
    \/ \E inputNames \in SeqsUpTo(InputNames, MaxInputs) : Filter(TestSkills, inputNames)
    \/ \E skills \in DiscoveredLists : \E options \in AddOptions : SelectSkills(skills, options)
    \/ \E files \in FileMaps : \E state \in TargetStates : WriteSkillFiles(files, state)
    \/ \E i, j \in DOMAIN TestSkills : \E mode \in {"symlink", "copy"} :
           i # j /\ InstallBoth(TestSkills[i], TestSkills[j], mode)

SpecPure == InitPure /\ [][NextPure]_vars

-----------------------------------------------------------------------------
(* Claims *)

Returning == last.n > 0 /\ last.outcome = "returned"

\* the skill's descriptor can be read through the path the result names
ConsumerReadable == IsFileAt(fs, Append(last.path, SKILL_MD))

\* C1: no install call returns success=true while the skill's files cannot be
\* read at the consumer path, whatever the prior state of the canonical and
\* consumer paths, the consumer root being a link included.
C1_SuccessMeansReadable ==
    (Returning /\ last.success) => ConsumerReadable

\* C1: the consumer root is a link and a link-mode install returned success.
C1_RootLinkInstalled ==
    /\ Returning
    /\ last.n = 1
    /\ last.mode = "symlink"
    /\ last.success
    /\ lstat(fs, AgentBase(site.agent, site.global)).k = "link"

\* C2: every install call returns an InstallResult instead of throwing, for
\* every agent type in both scopes, an agent type that defines no global
\* skills directory included.
C2_InstallCallReturns ==
    last.n > 0 => last.outcome = "returned"

\* C2: an install call was addressed to an agent type in a scope where it
\* defines no skills directory.
C2_NoDirectoryInScope ==
    last.n > 0 /\ AgentBase(last.agent, last.global) = undefined

LinkFailed == Returning /\ last.symlinkCreated = "false"
LinkSucceeded == Returning /\ last.symlinkCreated = "true"

\* C3 as stated: when link creation fails in a link-mode install the result has
\* success=true, mode=copy and linkFailed=true; when it succeeds, mode=link.
C3_FallbackReportsCopyMode ==
    /\ LinkFailed => (last.success /\ last.resultMode = "copy" /\ last.symlinkFailed)
    /\ LinkSucceeded => last.resultMode = "symlink"

\* C3: when link creation fails in a link-mode install the installer falls back
\* to a copy at the consumer path; if that copy completes (as it does when no
\* write is refused) the result has success=true, mode "symlink" (the mode
\* asked for) and symlinkFailed=true, and the consumer path is a real directory
\* holding the descriptor; otherwise the result has success=false and an error.
\* When link creation succeeds the result has success=true, mode
\* "symlink" and symlinkFailed unset.
C3_FallbackReportsRequestedMode ==
    /\ LinkFailed =>
          /\ last.env.failConsumer = {} => last.success
          /\ last.success =>
                /\ last.resultMode = "symlink" /\ last.symlinkFailed
                /\ lstat(fs, last.path).err = "OK" /\ lstat(fs, last.path).k = "dir"
                /\ ConsumerReadable
          /\ ~last.success => last.error # "" /\ last.resultMode = "symlink"
    /\ LinkSucceeded =>
          last.success /\ last.resultMode = "symlink" /\ ~last.symlinkFailed

\* C3: a link-mode install whose link creation failed returned success.
C3_FellBack ==
    LinkFailed /\ last.success /\ last.mode = "symlink" /\ ~last.env.link


\* C4: whenever link creation fails during a link-mode install, a re-install
\* over a canonical entry of an earlier version included, the files under the
\* consumer directory and their contents are those under the canonical
\* directory once the install has returned.
C4_FallbackIdentical ==
    (LinkFailed /\ last.success) =>
        FilesUnder(fs, last.path) = FilesUnder(fs, last.canonicalPath)

\* C4: a link-mode install fell back to a copy over a canonical entry that an
\* earlier version had left.
C4_FellBackOverEarlier ==
    /\ LinkFailed /\ last.success
    /\ <<<<FILE_OLD>>, Plain(0)>> \in FilesUnder(fs, last.canonicalPath)

\* the listing covers the scope and the agent of the install call
ListedSameScope ==
    /\ listed.done
    /\ listed.options.global \in {"undefined", IF last.global THEN "global" ELSE "project"}
    /\ listed.options.filtered => last.agent \in listed.options.agentFilter

\* C5: after a successful install (any installer, either mode, either scope),
\* listInstalledSkills run over the same scope and that agent returns an entry
\* for the skill whose agents list contains that agent.
C5_InstalledThenListed ==
    (Returning /\ last.success /\ ListedSameScope) =>
        \E entry \in listed.result :
            /\ entry.name = last.skill.name
            /\ entry.scope = (IF last.global THEN "global" ELSE "project")
            /\ last.agent \in entry.agents

\* C5: a copy-mode install succeeded and the same scope and agent were listed.
C5_CopyInstalledThenListed ==
    /\ Returning /\ last.success /\ ListedSameScope
    /\ last.mode = "copy"

\* the second of two calls that install the same skill, in the same mode and
\* environment, the first having succeeded and no write being refused
Reinstalled ==
    /\ last.n = 2 /\ Returning
    /\ prev.outcome = "returned" /\ prev.success
    /\ prev.skill = last.skill /\ prev.mode = last.mode /\ prev.env = last.env
    /\ NoFault(last.env)

\* C6: installing the same skill to the same target twice in succession returns
\* success with no error on the second run; the consumer path then exposes the
\* skill's files and, where it was a link resolving to the canonical directory,
\* it still is one and was not removed and created again.
C6_ReinstallIdempotent ==
    Reinstalled =>
        /\ last.success /\ last.error = ""
        /\ ConsumerReadable
        /\ (last.mode = "symlink" /\ last.linkBefore) =>
              /\ IsCorrectLink(fs, last.path, last.canonicalPath)
              /\ last.view # "link"

\* C6: the second of two link-mode installs found the consumer path a correct link.
C6_ReinstalledOverLink ==
    Reinstalled /\ last.mode = "symlink" /\ last.linkBefore

\* the install calls with an unsettled child copy below a directory
WritersOf(dir) == {t.n : t \in {x \in tasks : Unsettled(x) /\ IsPrefix(dir, x.path)}}

\* C7: at every moment at most one install call, counting the child copies it
\* started, is writing to a given canonical directory, whatever the outcome of
\* the preceding pair.
C7_SingleCanonicalWriter ==
    \A g \in BOOLEAN : Cardinality(WritersOf(CanonicalDirOf(g))) <= 1

\* C7: the preceding pair failed part-way through its directory copy: its
\* result is pushed while a child copy it started has not settled.
C7_FailedPartWay ==
    /\ Len(results) >= 1
    /\ ~results[Len(results)].success
    /\ \E t \in tasks : t.n = Len(results) /\ Unsettled(t)

\* C9: whenever an install creates a consumer view, a link or a copy, the
\* canonical entry of the skill exists at that moment, for every installer and
\* both install modes.
C9_ViewHasCanonical ==
    (Returning /\ last.view # "none") => last.canonAtView

\* C9: a copy-mode install created its consumer copy.
C9_CopyViewCreated ==
    Returning /\ last.mode = "copy" /\ last.view = "copy" /\ last.success

\* the subdirectories of the canonical store of a scope that hold a parsable
\* descriptor, by name
CanonicalEntries(f, global) ==
    {Last(q) : q \in {x \in readdir(f, getCanonicalSkillsDir(global)).entries :
                        /\ f[x].k = "dir"
                        /\ parseSkillMd(f, Append(x, SKILL_MD), FALSE).ok}}

ListedScopes ==
    IF listed.options.global = "undefined" THEN {FALSE, TRUE}
    ELSE {listed.options.global = "global"}

\* C10: listInstalledSkills includes every canonical-store subdirectory that
\* holds a parsable descriptor, for every scope filter and every agent filter,
\* the default of all registered agents included, whether or not an agent
\* exposes the skill.
C10_EveryCanonicalEntryListed ==
    listed.done =>
        \A g \in ListedScopes : \A name \in CanonicalEntries(fs, g) :
            \E entry \in listed.result :
                /\ entry.canonicalPath = join(getCanonicalSkillsDir(g), <<name>>)
                /\ entry.scope = (IF g THEN "global" ELSE "project")

\* C10: the global scope was listed with the default agent filter while its
\* canonical store held a skill.
C10_GlobalListedByDefault ==
    /\ listed.done /\ ~listed.options.filtered
    /\ TRUE \in ListedScopes
    /\ CanonicalEntries(fs, TRUE) # {}

ListedAgents == IF listed.options.filtered THEN listed.options.agentFilter ELSE AgentType

\* none of the three fast-path names of a listed entry exists under the base
NoFastPath(f, base, entry) ==
    \A n \in {Last(entry.canonicalPath), sanitizeName(entry.name), SlugName(entry.name)} :
        ~access(f, join(base, <<n>>))

\* the entries under the base, real directories or links to one, whose
\* descriptor declares exactly this name
Declaring(f, base, name) ==
    {q \in readdir(f, base).entries :
        /\ IsDirAt(f, join(base, <<Last(q)>>))
        /\ parseSkillMd(f, join(base, <<Last(q), SKILL_MD>>), FALSE).ok
        /\ parseSkillMd(f, join(base, <<Last(q), SKILL_MD>>), FALSE).name = name}

\* the listed entry is one the fallback scan of this agent has to find
ScanCase(entry, a) ==
    /\ AgentBase(a, entry.scope = "global") # undefined
    /\ NoFastPath(fs, AgentBase(a, entry.scope = "global"), entry)
    /\ Declaring(fs, AgentBase(a, entry.scope = "global"), entry.name) # {}

\* C11: when none of the fast-path names exists under a consumer root but some
\* entry under it, a real directory or a link to one, whatever its folder
\* name, holds a valid descriptor declaring exactly the skill's name,
\* listInstalledSkills reports the skill as visible for that consumer.
C11_FallbackScanFinds ==
    listed.done =>
        \A entry \in listed.result : \A a \in ListedAgents :
            ScanCase(entry, a) => a \in entry.agents

\* C11: a skill was listed whose only trace under the consumer root is a
\* differently named real directory, found by the fallback scan.
C11_RenamedDirectoryScanned ==
    /\ listed.done
    /\ \E entry \in listed.result : \E a \in ListedAgents :
          /\ ScanCase(entry, a)
          /\ a \in entry.agents
          /\ \E q \in Declaring(fs, AgentBase(a, entry.scope = "global"), entry.name) :
                fs[q].k = "dir"

Sanitized == applied.fn = "sanitizeName"

\* C12: sanitizeName applied to a name it returned gives that name back, for
\* every name, those whose cleaned form is longer than the limit included.
C12_SanitizeIdempotent ==
    (Sanitized /\ applied.from = "value") => applied.value = applied.name

\* C12: sanitizeName was applied to the result of a name that it had cut at
\* the limit.
C12_CutNameSanitizedAgain ==
    /\ Sanitized /\ applied.from = "value"
    /\ Len(applied.input) > MaxNameLen /\ Len(applied.name) = MaxNameLen

\* C13: no name sanitizeName returns begins or ends with '.' or '-', whatever
\* the length of the argument and wherever its dots and hyphens fall.
C13_NoDotOrHyphenAtEnds ==
    Sanitized =>
        /\ applied.value # <<>>
        /\ ~IsDotOrHyphen(Head(applied.value))
        /\ ~IsDotOrHyphen(applied.value[Len(applied.value)])

\* C13: a name longer than the limit, holding a dot or a hyphen, was sanitized.
C13_LongDottedNameSanitized ==
    /\ Sanitized /\ applied.from = "input"
    /\ Len(applied.name) > MaxNameLen
    /\ \E i \in DOMAIN applied.name : IsDotOrHyphen(applied.name[i])

\* the name holds a letter, a digit or an underscore: what neither the
\* collapsing of runs nor the stripping of the ends removes
HasSolidChar(name) ==
    \E i \in DOMAIN name :
        toLowerChar(name[i]) \in Range(LowerChars) \cup Range(DigitChars) \cup {"_"}

NameLengthBounded == Len(applied.value) >= 1 /\ Len(applied.value) <= MaxNameLen

LongNameCut ==
    applied.name = Repeat("a", LongNameLen) => applied.value = Repeat("a", MaxNameLen)

\* C14 as stated: the name returned has between 1 and 255 characters, it is
\* the placeholder exactly when cleaning leaves the empty string, and the
\* 300-character name is cut to its first 255 characters.
C14_PlaceholderExactlyWhenEmpty ==
    Sanitized =>
        /\ NameLengthBounded
        /\ applied.value = UNNAMED_SKILL <=> ~HasSolidChar(applied.name)
        /\ LongNameCut

\* C14: the name returned has between 1 and 255 characters; it is the
\* placeholder whenever cleaning leaves the empty string, and otherwise it
\* holds a letter, a digit or an underscore and is the placeholder only if
\* the cleaned name itself reads 'unnamed-skill'; the 300-character name of
\* allowed characters is cut to its first 255 characters.
C14_PlaceholderWhenEmpty ==
    Sanitized =>
        /\ NameLengthBounded
        /\ ~HasSolidChar(applied.name) => applied.value = UNNAMED_SKILL
        /\ HasSolidChar(applied.name) =>
              /\ HasSolidChar(applied.value)
              /\ applied.value = UNNAMED_SKILL =>
                    StripTrailing(StripLeading(ReplaceRuns(toLowerCase(applied.name))))
                        = UNNAMED_SKILL
        /\ LongNameCut

\* C14: the 300-character name was sanitized.
C14_LongNameSanitized ==
    Sanitized /\ applied.name = Repeat("a", LongNameLen)

\* s holds sub as a run of consecutive characters
Contains(s, sub) ==
    \E i \in 1..(Len(s) - Len(sub) + 1) : SubSeq(s, i, i + Len(sub) - 1) = sub

\* the name holds '../' or '..\', or starts with '/' or with a drive letter
Hostile(name) ==
    \/ Contains(name, <<".", ".", "/">>)
    \/ Contains(name, <<".", ".", "\\">>)
    \/ (name # <<>> /\ Head(name) = "/")
    \/ (Len(name) >= 2 /\ name[1] \in Range(UpperChars) \cup Range(LowerChars)
        /\ name[2] = ":")

\* the base directories a sanitized name is joined onto, the root included
JoinBases == {<<>>, cwd, getCanonicalSkillsDir(FALSE), getCanonicalSkillsDir(TRUE)}

\* C15: for a name holding '../' or '..\', or starting with '/' or a drive
\* letter, the sanitized name holds no '/' and no '\', is neither '.' nor
\* '..', and joined onto a base directory gives a path below that base.
C15_NoSeparatorNoParentStep ==
    (Sanitized /\ applied.from = "input" /\ Hostile(applied.name)) =>
        /\ \A i \in DOMAIN applied.value : applied.value[i] \notin {"/", "\\"}
        /\ applied.value \notin {<<".">>, <<".", ".">>}
        /\ \A base \in JoinBases :
              /\ IsPrefix(base, join(base, SplitPath(applied.value)))
              /\ Len(join(base, SplitPath(applied.value))) = Len(base) + 1

\* C15: a name holding a traversal step was sanitized.
C15_TraversalNameSanitized ==
    /\ Sanitized /\ applied.from = "input"
    /\ Contains(applied.name, <<".", ".", "/">>)

PathChecked == applied.fn = "isPathSafe"

\* the directory a path names once "." and ".." are worked off
Resolved(p) == Normalize(<<>>, p)

\* C16: isPathSafe(base, candidate) is true exactly when the candidate,
\* resolved, is the base or lies below it: true for the base itself and every
\* descendant, false for every sibling (one whose name starts with the base's
\* name included) and every ancestor, for every base, the root included.
C16_SafeIffWithinBase ==
    PathChecked =>
        (applied.value <=> IsPrefix(Resolved(applied.basePath), Resolved(applied.targetPath)))

\* C16: a path below the root was checked against the root as base.
C16_RootBaseChecked ==
    /\ PathChecked
    /\ Resolved(applied.basePath) = <<>>
    /\ Resolved(applied.targetPath) # <<>>

\* a link-mode install that found a link at the canonical path and succeeded
OverCanonicalLink ==
    /\ Returning /\ last.mode = "symlink" /\ last.success
    /\ last.canonicalBefore = "link"

\* C17: for every installer, when the canonical path is a stale, broken or
\* circular link as a link-mode install starts, the link is removed before any
\* content is written: after a successful install the canonical path is a
\* real directory and nothing was written where the old link led.
C17_CanonicalLinkReplaced ==
    OverCanonicalLink =>
        /\ lstat(fs, CanonicalDirOf(last.global)).k = "dir"
        /\ ~last.strayWrite

\* C17: a well-known skill was installed in link mode over a canonical path
\* that was a link.
C17_WellKnownOverCanonicalLink ==
    OverCanonicalLink /\ last.installer = "wellknown"

\* what the entry is once links are followed
TargetKind(entry) == IF entry.k = "link" THEN entry.to ELSE entry.k

\* the copy a source tree should produce below `at`: every entry that is not
\* noise, at every depth, with the content behind a link in place of the link
RECURSIVE Mirror(_, _)
Mirror(tree, at) ==
    UNION {IF isExcluded(n, TargetKind(tree[n]) = "dir") THEN {}
           ELSE IF TargetKind(tree[n]) = "file"
                THEN {<<Append(at, n), FileNode(tree[n].c)>>}
                ELSE {<<Append(at, n), DirNode>>} \cup Mirror(tree[n].sub, Append(at, n))
           : n \in DOMAIN tree}

\* what the destination holds
Copied == {<<x, fs[x]>> : x \in {y \in DOMAIN fs : IsPrefix(CopyDest, y) /\ y # CopyDest}}

CopyDone == applied.fn = "copyDirectory" /\ applied.err = "OK"

\* C18: after copyDirectory(src, dest) into an empty destination, dest holds
\* the entries of src except the noise entries (README.md, metadata.json, names
\* starting with '_', a .git directory) at every depth, also below the links
\* of src, which are followed.
C18_CopyMirrorsWithoutNoise ==
    CopyDone => Copied = Mirror(applied.src, CopyDest)

\* C18: a source with a link to a directory that holds a README.md was copied.
C18_LinkedDirectoryCopied ==
    /\ CopyDone
    /\ LINK_L \in DOMAIN applied.src
    /\ README_MD \in DOMAIN applied.src[LINK_L].sub

Filtered == applied.fn = "filterSkills"

\* the positions of the skills whose name is, letter case aside, one of the inputs
NamedBy(skills, inputNames) ==
    {i \in DOMAIN skills :
        \E j \in DOMAIN inputNames : toLowerCase(inputNames[j]) = toLowerCase(skills[i].name)}

\* the skills at a set of positions, in the order of the list
RECURSIVE InOrder(_, _)
InOrder(skills, idx) ==
    IF idx = {} THEN <<>>
    ELSE LET m == CHOOSE i \in idx : \A j \in idx : i <= j
         IN <<skills[m]>> \o InOrder(skills, idx \ {m})

\* C19: filterSkills(skills, inputs) returns exactly the skills whose name
\* equals some input, compared whole and without regard to letter case, in
\* their original order: the separate inputs 'Convex', 'Best', 'Practices'
\* match nothing, the input 'Convex Best Practices' matches the skill of that
\* name and not 'convex-best-practices', and no input or no match gives the
\* empty list.
C19_FilterByWholeName ==
    Filtered =>
        /\ applied.value = InOrder(applied.skills, NamedBy(applied.skills, applied.inputNames))
        /\ (applied.inputNames = <<CONVEX, BEST, PRACTICES>> => applied.value = <<>>)
        /\ (applied.inputNames = <<WORDS_NAME>> => applied.value = <<makeSkill(WORDS_NAME)>>)
        /\ (applied.inputNames = <<>> => applied.value = <<>>)
        /\ (NamedBy(applied.skills, applied.inputNames) = {} => applied.value = <<>>)

\* C19: the three words of a multi-word name were given as separate inputs.
C19_SeparateWordsFiltered ==
    Filtered /\ applied.inputNames = <<CONVEX, BEST, PRACTICES>>

\* a run of the add command that was given --skill '*' and found skills to install
WildcardGiven ==
    /\ applied.fn = "runAdd" /\ applied.options.skill = <<STAR>>
    /\ applied.skills # <<>> /\ ~applied.options.list

\* C20: the value '*' of --skill selects every discovered skill for
\* installation; it is not taken as the name of one skill.
C20_WildcardSelectsAll ==
    WildcardGiven => (applied.exit = "none" /\ applied.selected = applied.skills)

\* C20: the add command was run with --skill '*' on a source with several skills.
C20_WildcardOnSeveralSkills ==
    WildcardGiven /\ applied.skills = TestSkills

\* a link-mode call that reported success without the symlinkFailed flag, made
\* when the consumer path held something other than the correct link
LinkedOverOther ==
    /\ Returning /\ last.mode = "symlink" /\ last.success /\ ~last.symlinkFailed
    /\ ~last.linkBefore /\ last.consumerBefore # "none"

ResolvesTo(f, p, target) ==
    /\ stat(f, p).err = "OK" /\ stat(f, target).err = "OK"
    /\ stat(f, p).real = stat(f, target).real
    /\ KindAt(f, stat(f, target).real) = "dir"

\* C21: in link mode, when the consumer path holds something other than the
\* correct link (a link elsewhere, a real file or directory, a circular link),
\* createSymlink removes it and creates a link whose stored target is the
\* relative path from the consumer path's parent to the canonical directory;
\* after a result with success = true and no symlinkFailed flag the consumer
\* path resolves to the canonical directory.
C21_ConsumerLinkReplaced ==
    LinkedOverOther =>
        /\ ResolvesTo(fs, AgentDirOf(site), CanonicalDirOf(site.global))
        /\ AgentDirOf(site) # CanonicalDirOf(site.global) =>
              /\ lstat(fs, AgentDirOf(site)).k = "link"
              /\ fs[lstat(fs, AgentDirOf(site)).real].t
                   = relative(dirname(AgentDirOf(site)), CanonicalDirOf(site.global))

\* C21: a link-mode install succeeded where the consumer path held a real
\* directory of an earlier install.
C21_LinkedOverDirectory ==
    LinkedOverOther /\ last.consumerBefore = "dir" /\ last.symlinkCreated = "true"

FilesWritten == applied.fn = "writeSkillFiles" /\ applied.err = "OK"

\* the joined path of a file-map entry lies below the directory
StaysInside(targetDir, entry) ==
    /\ IsPrefix(targetDir, Normalize(targetDir, entry.path))
    /\ Normalize(targetDir, entry.path) # targetDir

\* the physical paths at which two filesystems differ
Differing(f, g) ==
    {x \in DOMAIN f \cup DOMAIN g : x \notin DOMAIN f \/ x \notin DOMAIN g \/ f[x] # g[x]}

\* C22: writeSkillFiles(targetDir) writes every entry of the file map whose
\* joined path stays inside targetDir and skips every entry whose path would
\* leave it, going on with the entries after it; no entry creates or changes
\* a file or directory outside targetDir.
C22_EscapingEntriesSkipped ==
    FilesWritten =>
        /\ \A i \in DOMAIN applied.files :
              StaysInside(applied.targetDir, applied.files[i]) =>
                  /\ stat(fs, join(applied.targetDir, applied.files[i].path)).err = "OK"
                  /\ fs[stat(fs, join(applied.targetDir, applied.files[i].path)).real]
                       = FileNode(applied.files[i].content)
        /\ \A x \in Differing(mkdir(applied.before, applied.targetDir).fs, fs) :
              /\ IsPrefix(stat(fs, applied.targetDir).real, x)
              /\ x # stat(fs, applied.targetDir).real

\* C22: a file map whose first entry leaves the directory and whose second
\* stays inside was written.
C22_EscapingEntryThenInside ==
    /\ FilesWritten /\ Len(applied.files) >= 2
    /\ ~StaysInside(applied.targetDir, applied.files[1])
    /\ StaysInside(applied.targetDir, applied.files[2])

\* a link-mode call in which fs.symlink created the consumer link
LinkCreated == Returning /\ last.mode = "symlink" /\ last.view = "link"

\* C23: at every step of a link-mode install a directory exists before its
\* children are written and the canonical directory exists before a consumer
\* link to it is created: no state holds a consumer link created by the
\* install while the canonical directory does not exist.
C23_LinkOnlyToExistingCanonical ==
    LinkCreated =>
        /\ last.canonAtView
        /\ IsDirAt(fs, CanonicalDirOf(site.global))

\* C23: the first call of a run created the consumer link where nothing was.
C23_FirstLinkCreated ==
    LinkCreated /\ last.n = 1 /\ last.consumerBefore = "none"

\* the call at hand met a refused write of the descriptor, which every
\* installer writes: in the canonical copy of a link-mode install, or in the
\* consumer copy of a copy-mode install or of a fallback
WriteRefused ==
    /\ last.n > 0 /\ AgentBase(site.agent, site.global) # undefined
    /\ \/ last.mode = "symlink" /\ SKILL_MD \in last.env.failCanonical
       \/ last.mode = "symlink" /\ last.symlinkCreated = "false"
          /\ SKILL_MD \in last.env.failConsumer
       \/ last.mode = "copy" /\ SKILL_MD \in last.env.failConsumer

SourceFiles(tree) == {<<m[1], m[2].c>> : m \in {x \in Mirror(tree, <<>>) : x[2].k = "file"}}

DirectoryLinked ==
    /\ Returning /\ last.installer = "directory" /\ last.mode = "symlink" /\ last.success

\* C25: after a successful link-mode install of a directory skill the
\* canonical directory holds exactly the non-excluded files of the source;
\* files an earlier install left under the same name and that the new source
\* lacks are gone.
C25_CanonicalHoldsExactlySource ==
    DirectoryLinked =>
        FilesUnder(fs, CanonicalDirOf(last.global)) = SourceFiles(last.skill.tree)

\* C25: a directory skill was installed in link mode over the canonical
\* directory of an earlier install.
C25_InstalledOverEarlierCanonical ==
    DirectoryLinked /\ last.canonicalBefore = "dir"

CopyInstalled == Returning /\ last.mode = "copy" /\ last.success

\* C26: a copy-mode install does not modify the canonical store: whatever the
\* consumer path held before, a link to the canonical directory included,
\* after a successful copy-mode install the consumer path is a real directory
\* of its own and the canonical directory holds what it held.
C26_CopyLeavesCanonicalAlone ==
    CopyInstalled =>
        /\ lstat(fs, AgentDirOf(site)).err = "OK"
        /\ lstat(fs, AgentDirOf(site)).k = "dir"
        /\ lstat(fs, AgentDirOf(site)).real # lstat(fs, CanonicalDirOf(site.global)).real
        /\ ~last.canonicalTouched

\* C26: a copy-mode install succeeded where the consumer path was a link to
\* the canonical directory.
C26_CopiedOverCorrectLink ==
    CopyInstalled /\ last.linkBefore

BothInstalled ==
    /\ applied.fn = "installLoop" /\ applied.names[1] # applied.names[2]
    /\ applied.success = <<TRUE, TRUE>>

\* C27: two distinct skills of one batch never share a canonical directory or
\* a consumer path, and installing the second leaves the files installed for
\* the first as they were, also when the names differ only in case, spaces
\* or punctuation.
C27_DistinctSkillsDistinctPaths ==
    BothInstalled =>
        /\ applied.path[1] # applied.path[2]
        /\ applied.mode = "symlink" => applied.canonicalPath[1] # applied.canonicalPath[2]
        /\ FilesUnder(fs, applied.path[1]) = applied.afterFirst

\* C27: the skills 'Convex Best Practices' and 'convex-best-practices' were
\* installed in one batch.
C27_NamesDifferInSpacesAndCase ==
    BothInstalled /\ applied.names = <<WORDS_NAME, KEBAB_NAME>>

\* a successful link-mode call at a site whose skills directory is the
\* canonical root, by its path or through a link
SameRootLinked ==
    /\ Returning /\ last.mode = "symlink" /\ last.success
    /\ ResolvesTo(fs, AgentBase(site.agent, site.global), getCanonicalSkillsDir(site.global))

\* C28: no install deletes the canonical entry through the consumer path or
\* creates a link that resolves to itself: when the consumer path and the
\* canonical path denote the same directory, by their paths or because the
\* consumer root is a link to the canonical root, the canonical directory
\* and its content are still there after the install.
C28_CanonicalSurvivesAliasing ==
    SameRootLinked =>
        /\ lstat(fs, CanonicalDirOf(site.global)).k = "dir"
        /\ IsFileAt(fs, Append(CanonicalDirOf(site.global), SKILL_MD))

\* C28: a link-mode install for an agent whose skills directory is the
\* canonical root by its path.
C28_SamePathInstalled ==
    SameRootLinked /\ AgentDirOf(site) = CanonicalDirOf(site.global)

\* the base directories of the installers: the canonical root and every
\* agent's skills directory, in both scopes
InstallerBases ==
    {getCanonicalSkillsDir(g) : g \in BOOLEAN}
    \cup ({AgentBase(a, g) : a \in AgentType, g \in BOOLEAN} \ {undefined})

\* C29: for every skill name and every base directory of the installers,
\* join(base, sanitizeName(name)) passes isPathSafe(base, .): the check that
\* answers 'potential path traversal detected' never fails.
C29_SanitizedNameAlwaysSafe ==
    Sanitized =>
        \A base \in InstallerBases :
            isPathSafe(base, join(base, SplitPath(applied.value)))

\* C29: the name '..' was sanitized.
C29_ParentStepSanitized ==
    Sanitized /\ applied.from = "input" /\ applied.name = <<".", ".">>

====
